---- MODULE Spec2Model ----
(***************************************************************************)
(* Model of the openclaw-webex channel adapter: the outbound WebexSender   *)
(* (send.ts), the inbound WebexWebhookHandler (webhook.ts), the           *)
(* WebexChannel facade (channel.ts) and the webhook router with the        *)
(* account gateway (channel-plugin.ts).                                    *)
(*                                                                         *)
(* Representation:                                                         *)
(*   - an optional value is a sequence of length 0 (undefined / null) or 1 *)
(*   - an identifier string is a sequence of one-character strings         *)
(*   - a message body string is a record counting its code points by       *)
(*     UTF-8 width (b1..b4), enough for truthiness and Buffer.byteLength   *)
(*   - an error message is a sequence of word tokens                       *)
(***************************************************************************)
EXTENDS Integers, Sequences, FiniteSets, TLC

None == <<>>
Some(v) == <<v>>
IsSome(o) == Len(o) = 1
Val(o) == o[1]
Range(s) == {s[i] : i \in 1..Len(s)}
Min(a, b) == IF a <= b THEN a ELSE b

\* String.prototype.includes on sequences
Includes(hay, needle) ==
    \E i \in 0..(Len(hay) - Len(needle)) :
        \A j \in 1..Len(needle) : hay[i + j] = needle[j]

\* String.prototype.startsWith on sequences
StartsWith(s, p) == Len(s) >= Len(p) /\ SubSeq(s, 1, Len(p)) = p

(***************************************************************************)
(* Bounds                                                                  *)
(***************************************************************************)
\* largest explicit maxRetries a sender is configured with
MaxRetriesBound == 2
\* number of jitter samples taken from [0, 1): k / JitterSteps, k < JitterSteps
JitterSteps == 2
\* longest subscriber list of a WebexChannel
MaxSubscribers == 2

\* entries of the target map when targets are registered directly
MaxTargets == 1

\* sends in progress at once on one sender
MaxConcurrent == 2

\* unregister functions handed out by registerWebexWebhookTarget
MaxRegistrations == 2

(***************************************************************************)
(* Program constants                                                       *)
(***************************************************************************)
DEFAULT_MAX_RETRIES == 3
DEFAULT_RETRY_DELAY_MS == 1000
RETRY_STATUS_CODES == {429, 502, 503, 504}
MAX_TEXT_BYTES == 7439
BACKOFF_CAP_MS == 30000

(***************************************************************************)
(* Identifier strings used as inputs                                       *)
(***************************************************************************)
ID_PREFIX == <<"Y", "2", "l", "z", "Y", "2", "9", "z", "c", "G", "F", "y", "a", "z", "o", "v", "L", "3">>
\* base64 of "us/ROOM/123", "us/PEOPLE/1234", "us/MESSAGE/1" (padded), "us/PEOPLE/ROOM/"
ROOM_TAIL == <<"V", "z", "L", "1", "J", "P", "T", "0", "0", "v", "M", "T", "I", "z">>
PEOPLE_TAIL == <<"V", "z", "L", "1", "B", "F", "T", "1", "B", "M", "R", "S", "8", "x", "M", "j", "M", "0">>
MESSAGE_TAIL == <<"V", "z", "L", "0", "1", "F", "U", "1", "N", "B", "R", "0", "U", "v", "M", "Q", "=", "=">>
BOTH_TAIL == <<"V", "z", "L", "1", "B", "F", "T", "1", "B", "M", "R", "S", "9", "S", "T", "0", "9", "N", "L", "w">>
LITERAL_ROOM_TAIL == <<"R", "O", "O", "M", "1", "2", "3">>
PLAIN_ROOM == <<"r", "o", "o", "m", "-", "1", "2", "3">>
EMAIL == <<"p", "@", "x", ".", "i", "o">>
AT_TAIL == <<"@", "x">>
\* a room-looking id that does not start with the opaque-id prefix
PLAIN_ROOM_WORD == <<"R", "O", "O", "M">>

ToValues ==
    { <<>>, PLAIN_ROOM, PLAIN_ROOM_WORD, EMAIL,
      ID_PREFIX, ID_PREFIX \o ROOM_TAIL, ID_PREFIX \o PEOPLE_TAIL,
      ID_PREFIX \o MESSAGE_TAIL, ID_PREFIX \o BOTH_TAIL,
      ID_PREFIX \o LITERAL_ROOM_TAIL, ID_PREFIX \o PEOPLE_TAIL \o AT_TAIL }

(***************************************************************************)
(* Buffer.from(to, 'base64').toString('utf-8')                             *)
(***************************************************************************)
B64Alphabet ==
    <<"A", "B", "C", "D", "E", "F", "G", "H", "I", "J", "K", "L", "M", "N", "O", "P", "Q", "R", "S", "T", "U", "V", "W", "X", "Y", "Z", "a", "b", "c", "d", "e", "f", "g", "h", "i", "j", "k", "l", "m", "n", "o", "p", "q", "r", "s", "t", "u", "v", "w", "x", "y", "z", "0", "1", "2", "3", "4", "5", "6", "7", "8", "9", "+", "/">>

IsB64Char(c) == c \in Range(B64Alphabet) \/ c \in {"-", "_"}

\* the 6-bit value of a base64 character (the URL-safe pair is accepted too)
B64Value(c) ==
    IF c = "-" THEN 62
    ELSE IF c = "_" THEN 63
    ELSE (CHOOSE i \in 1..64 : B64Alphabet[i] = c) - 1

\* the characters that take part in decoding: everything before the first
\* "=", with characters outside the alphabet skipped
RECURSIVE B64Significant(_)
B64Significant(s) ==
    IF s = <<>> \/ Head(s) = "=" THEN <<>>
    ELSE IF IsB64Char(Head(s)) THEN <<Head(s)>> \o B64Significant(Tail(s))
    ELSE B64Significant(Tail(s))

\* the decoded bytes; a trailing partial group gives the bytes it completes
Base64Decode(s) ==
    LET v == [i \in 1..Len(B64Significant(s)) |-> B64Value(B64Significant(s)[i])]
        n == (Len(v) * 6) \div 8
        byte(i) ==
            LET base == 4 * ((i - 1) \div 3)
                r == (i - 1) % 3
            IN  IF r = 0 THEN v[base + 1] * 4 + (v[base + 2] \div 16)
                ELSE IF r = 1 THEN (v[base + 2] % 16) * 16 + (v[base + 3] \div 4)
                ELSE (v[base + 3] % 4) * 64 + v[base + 4]
    IN  [i \in 1..n |-> byte(i)]

\* the byte codes of "/ROOM/" and "/PEOPLE/"
ROOM_MARKER == <<47, 82, 79, 79, 77, 47>>
PEOPLE_MARKER == <<47, 80, 69, 79, 80, 76, 69, 47>>

(***************************************************************************)
(* Message bodies                                                          *)
(***************************************************************************)
Str(n1, n2, n3, n4) == [b1 |-> n1, b2 |-> n2, b3 |-> n3, b4 |-> n4]
\* String.length > 0, the truthiness of a string (b4 code points are pairs)
StrNonEmpty(s) == s.b1 + s.b2 + s.b3 + s.b4 > 0
CodePoints(s) == s.b1 + s.b2 + s.b3 + s.b4
\* Buffer.byteLength(s, 'utf8')
Utf8ByteLength(s) == s.b1 + 2 * s.b2 + 3 * s.b3 + 4 * s.b4
\* truthiness of an optional string
Truthy(o) == IsSome(o) /\ StrNonEmpty(Val(o))

EMPTY_STR == Str(0, 0, 0, 0)
SHORT_TEXT == Str(6, 0, 0, 0)
SHORT_MARKDOWN == Str(13, 0, 0, 0)
\* exactly 7439 bytes
LIMIT_TEXT == Str(7439, 0, 0, 0)
\* 8000 ASCII characters
LONG_TEXT == Str(8000, 0, 0, 0)
\* 2480 three-byte code points: 7440 bytes in fewer than 7439 code points
WIDE_TEXT == Str(0, 0, 2480, 0)

TextValues == {None, Some(EMPTY_STR), Some(SHORT_TEXT), Some(LIMIT_TEXT),
               Some(LONG_TEXT), Some(WIDE_TEXT)}
MarkdownValues == {None, Some(SHORT_MARKDOWN)}
FilesValues == {None, Some(<<>>), Some(<<"file1", "file2">>)}
CardValues == {None, Some("card1")}
ParentValues == {None, Some("parent1")}

(***************************************************************************)
(* WebexSender: request construction and validation (send.ts)              *)
(***************************************************************************)
ContentValues ==
    [text : TextValues, markdown : MarkdownValues,
     files : FilesValues, card : CardValues]

\* every content with two targets, and every target with two contents
OutboundMessages ==
    [to : {<<>>, PLAIN_ROOM}, content : ContentValues, parentId : ParentValues]
    \cup
    [to : ToValues,
     content : {[text |-> Some(SHORT_TEXT), markdown |-> None,
                 files |-> None, card |-> None],
                [text |-> None, markdown |-> None,
                 files |-> None, card |-> None]},
     parentId : {None}]

EmptyRequest ==
    [roomId |-> None, toPersonId |-> None, toPersonEmail |-> None,
     text |-> None, markdown |-> None, files |-> None,
     attachments |-> None, parentId |-> None]

\* target choice that tests the person marker before the room marker and
\* takes every other opaque id for a person
TargetField_personDefault(to) ==
    IF Includes(to, <<"@">>) THEN "toPersonEmail"
    ELSE IF StartsWith(to, ID_PREFIX) THEN
        LET decoded == Base64Decode(to)
        IN  IF Includes(decoded, ROOM_MARKER) THEN "roomId"
            ELSE "toPersonId"
    ELSE "roomId"

\* the target class chosen for `to`: the name of the request field it fills
TargetField(to) ==
    IF Includes(to, <<"@">>) THEN "toPersonEmail"
    ELSE IF StartsWith(to, ID_PREFIX) THEN
        LET decoded == Base64Decode(to)
        IN  IF Includes(decoded, ROOM_MARKER) THEN "roomId"
            ELSE IF Includes(decoded, PEOPLE_MARKER) THEN "toPersonId"
            ELSE "roomId"
    ELSE "roomId"

buildMessageRequest(message) ==
    LET c == message.content
        withTarget == [EmptyRequest EXCEPT ![TargetField(message.to)] = Some(message.to)]
        md1 == IF Truthy(c.text) THEN c.text ELSE None
        md2 == IF Truthy(c.markdown) THEN c.markdown ELSE md1
        files == IF IsSome(c.files) /\ Len(Val(c.files)) > 0
                 THEN Some(<<Val(c.files)[1]>>) ELSE None
        attachments == IF IsSome(c.card) THEN Some(<<Val(c.card)>>) ELSE None
        parentId == IF IsSome(message.parentId) THEN message.parentId ELSE None
    IN  [withTarget EXCEPT !.markdown = md2, !.files = files,
                           !.attachments = attachments, !.parentId = parentId]

\* truthiness of an optional identifier string
IdTruthy(o) == IsSome(o) /\ Len(Val(o)) > 0
\* truthiness of `list?.length`
HasLength(o) == IsSome(o) /\ Len(Val(o)) > 0

PlainError(msg) == [cls |-> "Error", statusCode |-> 0, message |-> msg]
ApiError(msg, status) == [cls |-> "WebexApiRequestError", statusCode |-> status, message |-> msg]

NO_TARGET_MSG == <<"Message", "must", "have", "a", "target">>
NO_CONTENT_MSG == <<"Message", "must", "have", "content">>
TOO_LONG_MSG == <<"Message", "text", "exceeds", "maximum", "size">>
AFTER_RETRIES_MSG == <<"Request", "failed", "after", "retries">>

\* validation that forgets the content check
validateMessageRequest_noContentCheck(request) ==
    IF ~IdTruthy(request.roomId) /\ ~IdTruthy(request.toPersonId)
        /\ ~IdTruthy(request.toPersonEmail)
    THEN Some(PlainError(NO_TARGET_MSG))
    ELSE IF Truthy(request.text) /\ Utf8ByteLength(Val(request.text)) > MAX_TEXT_BYTES
    THEN Some(PlainError(TOO_LONG_MSG))
    ELSE None

\* validation that tests the target fields for presence, not for truthiness
validateMessageRequest_presentTarget(request) ==
    IF ~IsSome(request.roomId) /\ ~IsSome(request.toPersonId)
        /\ ~IsSome(request.toPersonEmail)
    THEN Some(PlainError(NO_TARGET_MSG))
    ELSE IF ~Truthy(request.text) /\ ~Truthy(request.markdown)
        /\ ~HasLength(request.files) /\ ~HasLength(request.attachments)
    THEN Some(PlainError(NO_CONTENT_MSG))
    ELSE IF Truthy(request.text) /\ Utf8ByteLength(Val(request.text)) > MAX_TEXT_BYTES
    THEN Some(PlainError(TOO_LONG_MSG))
    ELSE None

\* None when the request is valid, else the error thrown
validateMessageRequest(request) ==
    IF ~IdTruthy(request.roomId) /\ ~IdTruthy(request.toPersonId)
        /\ ~IdTruthy(request.toPersonEmail)
    THEN Some(PlainError(NO_TARGET_MSG))
    ELSE IF ~Truthy(request.text) /\ ~Truthy(request.markdown)
        /\ ~HasLength(request.files) /\ ~HasLength(request.attachments)
    THEN Some(PlainError(NO_CONTENT_MSG))
    ELSE IF Truthy(request.text) /\ Utf8ByteLength(Val(request.text)) > MAX_TEXT_BYTES
    THEN Some(PlainError(TOO_LONG_MSG))
    ELSE None

(***************************************************************************)
(* WebexSender: one HTTP call (send.ts executeRequest)                     *)
(***************************************************************************)
HttpStatuses == {200, 204, 400, 401, 429, 500, 502, 503, 504}
\* the `message` of a JSON body, empty when the body has none; None when
\* the body is not JSON
BodyValues == {None, Some(<<>>), Some(<<"upstream", "ECONNRESET">>)}
RejectMessages == {<<"request", "failed", "ECONNRESET">>, <<"ETIMEDOUT">>,
                   <<"ENOTFOUND">>, <<"Some", "generic", "error">>}
\* what fetch() settles with
FetchResults ==
    [kind : {"http"}, status : HttpStatuses, body : {None}, message : {<<>>}]
    \cup [kind : {"http"}, status : {200, 400, 503}, body : BodyValues, message : {<<>>}]
    \cup [kind : {"reject"}, status : {0}, body : {None}, message : RejectMessages]

StatusText(status) ==
    CASE status = 200 -> "OK"
      [] status = 204 -> "No Content"
      [] status = 400 -> "Bad Request"
      [] status = 401 -> "Unauthorized"
      [] status = 404 -> "Not Found"
      [] status = 429 -> "Too Many Requests"
      [] status = 500 -> "Internal Server Error"
      [] status = 502 -> "Bad Gateway"
      [] status = 503 -> "Service Unavailable"
      [] status = 504 -> "Gateway Timeout"
      [] OTHER -> "Unknown"

ResponseOk(status) == status >= 200 /\ status <= 299

\* an error that keeps the message and drops the status code
parseErrorResponse_untyped(response) ==
    LET message == IF IsSome(response.body) /\ Val(response.body) # <<>>
                   THEN Val(response.body)
                   ELSE <<"HTTP", StatusText(response.status)>>
    IN  PlainError(message)

parseErrorResponse(response) ==
    LET message == IF IsSome(response.body) /\ Val(response.body) # <<>>
                   THEN Val(response.body)
                   ELSE <<"HTTP", StatusText(response.status)>>
    IN  ApiError(message, response.status)

Return(v) == [kind |-> "return", value |-> v, error |-> None]
Throw(e) == [kind |-> "throw", value |-> None, error |-> Some(e)]

executeRequest(fetched) ==
    IF fetched.kind = "reject" THEN Throw(PlainError(fetched.message))
    ELSE IF ~ResponseOk(fetched.status) THEN Throw(parseErrorResponse(fetched))
    ELSE IF fetched.status = 204 THEN Return(None)
    ELSE IF IsSome(fetched.body) THEN Return(fetched.body)
    ELSE Throw(PlainError(<<"Unexpected", "end", "of", "JSON", "input">>))

(***************************************************************************)
(* WebexSender: retry policy (send.ts request, shouldRetry, backoff)       *)
(***************************************************************************)
\* retry predicate that takes every API error for a transient one
shouldRetry_anyApiError(error, attempt) ==
    IF error.cls = "WebexApiRequestError"
    THEN TRUE
    ELSE \/ "ECONNRESET" \in Range(error.message)
         \/ "ETIMEDOUT" \in Range(error.message)
         \/ "ENOTFOUND" \in Range(error.message)

shouldRetry(error, attempt) ==
    IF error.cls = "WebexApiRequestError"
    THEN error.statusCode \in RETRY_STATUS_CODES
    ELSE \/ "ECONNRESET" \in Range(error.message)
         \/ "ETIMEDOUT" \in Range(error.message)
         \/ "ENOTFOUND" \in Range(error.message)

Pow2(n) == IF n <= 0 THEN 1 ELSE 2 ^ n

\* delays are kept in units of 1 / DelayScale ms so that the jitter
\* (k / JitterSteps) * 0.3 * exponentialDelay stays an integer
DelayScale == 10 * JitterSteps

\* a backoff without the cap
calculateBackoff_uncapped(retryDelayMs, attempt, k) ==
    LET exponentialDelay == retryDelayMs * Pow2(attempt - 1)
        jitter == 3 * k * exponentialDelay
    IN  exponentialDelay * DelayScale + jitter

calculateBackoff(retryDelayMs, attempt, k) ==
    LET exponentialDelay == retryDelayMs * Pow2(attempt - 1)
        jitter == 3 * k * exponentialDelay
    IN  Min(exponentialDelay * DelayScale + jitter, BACKOFF_CAP_MS * DelayScale)

\* the loop condition of request()
LoopCondition(attempt, maxRetries) == attempt <= maxRetries
\* budget check that never ends the loop by itself
BudgetExhausted_never(attempt, maxRetries) == FALSE

\* budget check that gives up one attempt early
BudgetExhausted_offByOne(attempt, maxRetries) == attempt >= maxRetries

\* the budget check after a failed call
BudgetExhausted(attempt, maxRetries) == attempt > maxRetries

\* the constructor's retryOptions
SenderConfigs ==
    [maxRetries : {None} \cup {Some(m) : m \in (0 - 1)..MaxRetriesBound},
     retryDelayMs : {None, Some(20000)}]

WebexSender(config) ==
    [maxRetries |-> IF IsSome(config.maxRetries) THEN Val(config.maxRetries)
                    ELSE DEFAULT_MAX_RETRIES,
     retryDelayMs |-> IF IsSome(config.retryDelayMs) THEN Val(config.retryDelayMs)
                      ELSE DEFAULT_RETRY_DELAY_MS]

(***************************************************************************)
(* Account configuration (types.ts WebexChannelConfig)                     *)
(* token, webhookUrl and dmPolicy are strings, "" standing for a missing   *)
(* or empty value; the other fields are optional.                          *)
(***************************************************************************)
DmPolicies == {"allow", "deny", "allowlisted", "allowlist", "pairing"}
AllowFromValues == {None, Some(<<>>), Some(<<"person-1">>), Some(<<"p2@x">>)}
SecretValues == {None, Some("s1")}
\* a URL is the sequence of its parts: scheme, "://", host, path
WEBHOOK_URL == <<"https", "://", "example.com", "/webhook">>

ChannelConfig(token, url, policy, allowFrom, secret) ==
    [token |-> token, webhookUrl |-> url, dmPolicy |-> policy,
     allowFrom |-> allowFrom, webhookSecret |-> secret,
     maxRetries |-> None, retryDelayMs |-> None]

\* the configurations a WebexWebhookHandler is constructed with directly
HandlerConfigs ==
    {ChannelConfig("tok", WEBHOOK_URL, p, a, k) :
        p \in DmPolicies, a \in AllowFromValues, k \in SecretValues}

(***************************************************************************)
(* Notifications and provider messages                                     *)
(***************************************************************************)
BOT_ID == "bot-123"
Persons == {[id |-> BOT_ID, email |-> "bot@x"],
            [id |-> "person-1", email |-> "p1@x"],
            [id |-> "person-2", email |-> "p2@x"]}

WebhookData(roomType, person) ==
    [id |-> "m1", roomId |-> "room-1", roomType |-> roomType,
     personId |-> person.id, personEmail |-> person.email]

Payloads ==
    {[resource |-> r, event |-> e, data |-> WebhookData(t, p)] :
        r \in {"messages", "memberships"}, e \in {"created", "deleted"},
        t \in {"direct", "group"}, p \in Persons}

\* the messages the provider may hold under the notified id; their room
\* differs from the notification's so that the two sources can be told apart
MSG_PLAIN ==
    [id |-> "m1", roomId |-> "room-9", roomType |-> "group",
     text |-> Some(SHORT_TEXT), markdown |-> Some(SHORT_MARKDOWN),
     files |-> None, attachments |-> None,
     personId |-> "person-1", personEmail |-> "p1@x",
     mentionedPeople |-> None, parentId |-> None, created |-> "t1"]
MSG_RICH ==
    [id |-> "m1", roomId |-> "room-9", roomType |-> "direct",
     text |-> Some(SHORT_TEXT), markdown |-> None,
     files |-> Some(<<"file1", "file2">>),
     attachments |-> Some(<<[content |-> "card1"]>>),
     personId |-> "person-2", personEmail |-> "p2@x",
     mentionedPeople |-> Some(<<"person-1">>), parentId |-> Some("parent1"),
     created |-> "t2"]
MSG_BARE ==
    [id |-> "m1", roomId |-> "room-9", roomType |-> "group",
     text |-> None, markdown |-> None,
     files |-> Some(<<>>), attachments |-> Some(<<>>),
     personId |-> "person-1", personEmail |-> "p1@x",
     mentionedPeople |-> None, parentId |-> None, created |-> "t3"]
ProviderMessages == {MSG_PLAIN, MSG_RICH, MSG_BARE}

\* what the fetch of GET /messages/{id} settles with
MessageFetchResults ==
    [kind : {"http"}, status : {200}, message : {Some(m) : m \in ProviderMessages}]
    \cup [kind : {"http"}, status : {404, 500}, message : {None}]
    \cup [kind : {"reject"}, status : {0}, message : {None}]

(***************************************************************************)
(* Signatures (webhook.ts verifySignature)                                 *)
(* The HMAC-SHA1 hex digest is replaced by a keyed rolling digest of       *)
(* DigestLen hex digits over the serialized payload: a deterministic,      *)
(* fixed-length function of the secret and of every byte of the body.      *)
(***************************************************************************)
DigestLen == 4
DigestModulus == 16 ^ DigestLen
HexDigits == <<"0", "1", "2", "3", "4", "5", "6", "7", "8", "9", "a", "b", "c", "d", "e", "f">>

Atoms == <<"messages", "memberships", "created", "deleted", "direct", "group",
           "m1", "room-1", "bot-123", "person-1", "person-2",
           "bot@x", "p1@x", "p2@x", "s1", "s2">>
AtomCode(a) == CHOOSE i \in 1..Len(Atoms) : Atoms[i] = a

\* JSON.stringify(payload), as the sequence of the codes of its values
Stringify(payload) ==
    <<AtomCode(payload.resource), AtomCode(payload.event),
      AtomCode(payload.data.id), AtomCode(payload.data.roomId),
      AtomCode(payload.data.roomType), AtomCode(payload.data.personId),
      AtomCode(payload.data.personEmail)>>

RECURSIVE RollingDigest(_, _)
RollingDigest(h, bytes) ==
    IF bytes = <<>> THEN h
    ELSE RollingDigest((h * 33 + Head(bytes)) % DigestModulus, Tail(bytes))

\* n as DigestLen hexadecimal digits
RECURSIVE HexOf(_, _)
HexOf(n, len) ==
    IF len = 0 THEN <<>>
    ELSE HexOf(n \div 16, len - 1) \o <<HexDigits[(n % 16) + 1]>>

\* crypto.createHmac('sha1', secret).update(body).digest('hex')
HmacHex(secret, body) ==
    HexOf(RollingDigest(5381 + 977 * AtomCode(secret), body), DigestLen)

\* crypto.timingSafeEqual on the two strings' bytes: a RangeError when
\* the lengths differ, else equality
timingSafeEqual(a, b) ==
    IF Len(a) # Len(b) THEN "throw"
    ELSE IF a = b THEN "true" ELSE "false"

\* verifySignature that refuses every signature when no secret is configured
verifySignature_secretRequired(config, payload, signature, originalBody) ==
    IF ~IsSome(config.webhookSecret) THEN "false"
    ELSE timingSafeEqual(signature,
            HmacHex(Val(config.webhookSecret),
                    IF IsSome(originalBody) THEN Val(originalBody)
                    ELSE Stringify(payload)))

\* "true", "false", or "throw" when an exception escapes
verifySignature(config, payload, signature, originalBody) ==
    IF ~IsSome(config.webhookSecret) THEN "true"
    ELSE timingSafeEqual(signature,
            HmacHex(Val(config.webhookSecret),
                    IF IsSome(originalBody) THEN Val(originalBody)
                    ELSE Stringify(payload)))

\* a wrong signature of the digest's length, and one that is shorter
ZERO_SIGNATURE == [i \in 1..DigestLen |-> "0"]
SHORT_SIGNATURE == [i \in 1..(DigestLen - 1) |-> "0"]
\* the x-spark-signature values a notification may arrive with
SignatureValues(payload) ==
    {None, Some(HmacHex("s1", Stringify(payload))), Some(ZERO_SIGNATURE),
     Some(SHORT_SIGNATURE)}

\* body with the byte at position i changed
MutateByte(body, i) == [body EXCEPT ![i] = (body[i] % 255) + 1]

\* the raw request bodies verifySignature may be handed as originalBody
RawBodies(payload) ==
    {None, Some(Stringify(payload)), Some(Stringify(payload) \o <<10>>)}

\* the body the signature is verified against
SignedBody(payload, originalBody) ==
    IF IsSome(originalBody) THEN Val(originalBody) ELSE Stringify(payload)

LONG_SIGNATURE == [i \in 1..(DigestLen + 1) |-> "0"]

\* the signatures verifySignature may be handed together with how each was
\* made: the digest of the body itself, of the body with one byte changed,
\* of the body under another secret, and strings that are no digest
SignatureInputs(body) ==
    {[signature |-> HmacHex("s1", body), secret |-> Some("s1"), body |-> Some(body)],
     [signature |-> HmacHex("s2", body), secret |-> Some("s2"), body |-> Some(body)],
     [signature |-> ZERO_SIGNATURE, secret |-> None, body |-> None],
     [signature |-> SHORT_SIGNATURE, secret |-> None, body |-> None],
     [signature |-> LONG_SIGNATURE, secret |-> None, body |-> None],
     [signature |-> <<>>, secret |-> None, body |-> None]}
    \cup {[signature |-> HmacHex("s1", MutateByte(body, i)), secret |-> Some("s1"),
           body |-> Some(MutateByte(body, i))] : i \in 1..Len(body)}

(***************************************************************************)
(* WebexWebhookHandler: filters, policy, normalization (webhook.ts)        *)
(***************************************************************************)
\* a policy check that looks up the sender's id only
\* isAllowedSender that reads allowlist as another spelling of allowlisted
isAllowedSender_allowlistAlias(config, data) ==
    CASE config.dmPolicy = "allow" -> TRUE
      [] config.dmPolicy = "deny" -> FALSE
      [] config.dmPolicy \in {"allowlisted", "allowlist"} ->
            IF ~IsSome(config.allowFrom) \/ Len(Val(config.allowFrom)) = 0
            THEN FALSE
            ELSE \/ data.personId \in Range(Val(config.allowFrom))
                 \/ data.personEmail \in Range(Val(config.allowFrom))
      [] OTHER -> FALSE

isAllowedSender_idOnly(config, data) ==
    CASE config.dmPolicy = "allow" -> TRUE
      [] config.dmPolicy = "deny" -> FALSE
      [] config.dmPolicy = "allowlisted" ->
            IF ~IsSome(config.allowFrom) \/ Len(Val(config.allowFrom)) = 0
            THEN FALSE
            ELSE data.personId \in Range(Val(config.allowFrom))
      [] OTHER -> FALSE

isAllowedSender(config, data) ==
    CASE config.dmPolicy = "allow" -> TRUE
      [] config.dmPolicy = "deny" -> FALSE
      [] config.dmPolicy = "allowlisted" ->
            IF ~IsSome(config.allowFrom) \/ Len(Val(config.allowFrom)) = 0
            THEN FALSE
            ELSE \/ data.personId \in Range(Val(config.allowFrom))
                 \/ data.personEmail \in Range(Val(config.allowFrom))
      [] OTHER -> FALSE

\* handleWebhook without the test of the sender against the bot's own id
handleWebhookFilters_noSelfCheck(config, botId, payload) ==
    IF payload.resource # "messages" \/ payload.event # "created" THEN "null"
    ELSE IF payload.data.roomType = "direct" /\ ~isAllowedSender(config, payload.data)
    THEN "null"
    ELSE "fetch"

\* the part of handleWebhook before the fetch: "null" when it returns null,
\* "fetch" when it goes on to fetch the message; the signature handed in by
\* the callers is not a parameter of the method and is never read
handleWebhookFilters(config, botId, payload) ==
    IF payload.resource # "messages" \/ payload.event # "created" THEN "null"
    ELSE IF Some(payload.data.personId) = botId THEN "null"
    ELSE IF payload.data.roomType = "direct" /\ ~isAllowedSender(config, payload.data)
    THEN "null"
    ELSE "fetch"

FileAttachment(url) == [type |-> "file", url |-> Some(url), content |-> None]
CardAttachment(content) == [type |-> "card", url |-> None, content |-> Some(content)]

\* normalizeMessage that lists the cards before the files
normalizeMessage_cardsFirst(message) ==
    LET fileList == IF IsSome(message.files) /\ Len(Val(message.files)) > 0
                    THEN [i \in 1..Len(Val(message.files)) |->
                            FileAttachment(Val(message.files)[i])]
                    ELSE <<>>
        cardList == IF IsSome(message.attachments) /\ Len(Val(message.attachments)) > 0
                    THEN [i \in 1..Len(Val(message.attachments)) |->
                            CardAttachment(Val(message.attachments)[i].content)]
                    ELSE <<>>
        attachments == cardList \o fileList
    IN  [id |-> message.id,
         channel |-> "webex",
         conversationId |-> message.roomId,
         author |-> [id |-> message.personId, email |-> message.personEmail,
                     displayName |-> None, isBot |-> FALSE],
         content |-> [text |-> message.text, markdown |-> message.markdown,
                      attachments |-> IF Len(attachments) > 0
                                      THEN Some(attachments) ELSE None],
         metadata |-> [roomType |-> message.roomType, roomId |-> message.roomId,
                       timestamp |-> message.created,
                       mentions |-> message.mentionedPeople,
                       parentId |-> message.parentId, raw |-> message]]

normalizeMessage(message) ==
    LET fileList == IF IsSome(message.files) /\ Len(Val(message.files)) > 0
                    THEN [i \in 1..Len(Val(message.files)) |->
                            FileAttachment(Val(message.files)[i])]
                    ELSE <<>>
        cardList == IF IsSome(message.attachments) /\ Len(Val(message.attachments)) > 0
                    THEN [i \in 1..Len(Val(message.attachments)) |->
                            CardAttachment(Val(message.attachments)[i].content)]
                    ELSE <<>>
        attachments == fileList \o cardList
    IN  [id |-> message.id,
         channel |-> "webex",
         conversationId |-> message.roomId,
         author |-> [id |-> message.personId, email |-> message.personEmail,
                     displayName |-> None, isBot |-> FALSE],
         content |-> [text |-> message.text, markdown |-> message.markdown,
                      attachments |-> IF Len(attachments) > 0
                                      THEN Some(attachments) ELSE None],
         metadata |-> [roomType |-> message.roomType, roomId |-> message.roomId,
                       timestamp |-> message.created,
                       mentions |-> message.mentionedPeople,
                       parentId |-> message.parentId, raw |-> message]]

FETCH_FAILED_MSG == <<"Failed", "to", "fetch", "message">>
NETWORK_MSG == <<"request", "failed", "ECONNRESET">>

\* a fetch that answers a failed request with null
fetchAndNormalize_nullOnError(fetched) ==
    IF fetched.kind = "reject" THEN Throw(PlainError(NETWORK_MSG))
    ELSE IF ~ResponseOk(fetched.status) THEN Return(None)
    ELSE Return(Some(normalizeMessage(Val(fetched.message))))

\* fetchMessage followed by normalizeMessage, on what the fetch settled with
fetchAndNormalize(fetched) ==
    IF fetched.kind = "reject" THEN Throw(PlainError(NETWORK_MSG))
    ELSE IF ~ResponseOk(fetched.status)
    THEN Throw(PlainError(FETCH_FAILED_MSG \o <<StatusText(fetched.status)>>))
    ELSE Return(Some(normalizeMessage(Val(fetched.message))))

(***************************************************************************)
(* Webhooks held by the provider (webhook.ts registerWebhooks)             *)
(***************************************************************************)
OTHER_URL == <<"https", "://", "other.com", "/webhook">>

Webhook(id, targetUrl, resource, event) ==
    [id |-> id, targetUrl |-> targetUrl, resource |-> resource, event |-> event]

\* the webhooks the provider may hold before the handler registers its own:
\* two that point at the configured URL, one that points elsewhere
ProviderHooks ==
    {Webhook("old-1", WEBHOOK_URL, "messages", "created"),
     Webhook("old-2", WEBHOOK_URL, "memberships", "created"),
     Webhook("other-1", OTHER_URL, "messages", "created")}

\* the ids the provider gives to the webhooks it creates
NewIds == {"new-1", "new-2"}

\* the orders in which the provider may list a set of webhooks
Orderings(hooks) ==
    {f \in [1..Cardinality(hooks) -> hooks] :
        \A i, j \in 1..Cardinality(hooks) : i # j => f[i] # f[j]}

\* a registration that deletes every webhook it finds
IsDuplicate_any(webhook, targetUrl) == TRUE

\* webhook.targetUrl === targetUrl
IsDuplicate(webhook, targetUrl) == webhook.targetUrl = targetUrl

LIST_FAILED_MSG == <<"Failed", "to", "list", "webhooks">>
DELETE_FAILED_MSG == <<"Failed", "to", "delete", "webhook">>
CREATE_FAILED_MSG == <<"Failed", "to", "create", "webhook">>

\* the request createWebhook posts
CreateWebhookRequest(config) ==
    [name |-> "OpenClaw Message Handler", targetUrl |-> config.webhookUrl,
     resource |-> "messages", event |-> "created", secret |-> config.webhookSecret]

(***************************************************************************)
(* WebexChannel: configuration checks (channel.ts)                         *)
(***************************************************************************)
\* new URL(url) does not throw: an absolute URL with a scheme and, for
\* http and https, a host
IsValidUrl(url) ==
    /\ Len(url) >= 3
    /\ url[1] \in {"http", "https"}
    /\ url[2] = "://"
    /\ url[3] # ""

CONFIG_TOKEN_MSG == <<"config", "requires", "a", "token">>
CONFIG_URL_MSG == <<"config", "requires", "a", "webhookUrl">>
CONFIG_POLICY_MSG == <<"config", "requires", "a", "dmPolicy">>
CONFIG_ALLOWFROM_MSG == <<"config", "requires", "allowFrom">>
CONFIG_BAD_URL_MSG == <<"webhookUrl", "must", "be", "a", "valid", "URL">>
NOT_INITIALIZED_MSG == <<"Webex", "channel", "is", "not", "initialized">>
BOT_INFO_MSG == <<"Failed", "to", "get", "bot", "info">>

\* validateConfig without the URL syntax check
validateConfig_noUrlSyntax(config) ==
    IF config.token = "" THEN Some(PlainError(CONFIG_TOKEN_MSG))
    ELSE IF config.webhookUrl = <<>> THEN Some(PlainError(CONFIG_URL_MSG))
    ELSE IF config.dmPolicy = "" THEN Some(PlainError(CONFIG_POLICY_MSG))
    ELSE IF config.dmPolicy = "allowlisted"
            /\ (~IsSome(config.allowFrom) \/ Len(Val(config.allowFrom)) = 0)
    THEN Some(PlainError(CONFIG_ALLOWFROM_MSG))
    ELSE None

\* None when the config is accepted, else the error thrown
validateConfig(config) ==
    IF config.token = "" THEN Some(PlainError(CONFIG_TOKEN_MSG))
    ELSE IF config.webhookUrl = <<>> THEN Some(PlainError(CONFIG_URL_MSG))
    ELSE IF config.dmPolicy = "" THEN Some(PlainError(CONFIG_POLICY_MSG))
    ELSE IF config.dmPolicy = "allowlisted"
            /\ (~IsSome(config.allowFrom) \/ Len(Val(config.allowFrom)) = 0)
    THEN Some(PlainError(CONFIG_ALLOWFROM_MSG))
    ELSE IF ~IsValidUrl(config.webhookUrl) THEN Some(PlainError(CONFIG_BAD_URL_MSG))
    ELSE None

\* { ...DEFAULT_CONFIG, ...config }
MergeDefaults(config) ==
    [config EXCEPT
        !.maxRetries = IF IsSome(@) THEN @ ELSE Some(DEFAULT_MAX_RETRIES),
        !.retryDelayMs = IF IsSome(@) THEN @ ELSE Some(DEFAULT_RETRY_DELAY_MS)]

\* the configurations handed to WebexChannel.initialize
ChannelConfigs ==
    { ChannelConfig("tok", WEBHOOK_URL, "allowlisted", Some(<<"person-1">>), Some("s1")),
      ChannelConfig("", WEBHOOK_URL, "allow", None, None),
      ChannelConfig("tok", <<>>, "allow", None, None),
      ChannelConfig("tok", <<"not-a-valid-url">>, "allow", None, None),
      ChannelConfig("tok", WEBHOOK_URL, "", None, None),
      ChannelConfig("tok", WEBHOOK_URL, "allowlisted", None, None),
      ChannelConfig("tok", WEBHOOK_URL, "allowlisted", Some(<<>>), None) }

\* the subscribers that may be registered with onMessage
Subscribers == {"h1", "h2"}

\* the notifications and fetch results the facade is driven with
ChannelPayloads ==
    { [resource |-> "messages", event |-> "created",
       data |-> WebhookData("group", [id |-> "person-1", email |-> "p1@x"])],
      [resource |-> "memberships", event |-> "created",
       data |-> WebhookData("group", [id |-> "person-1", email |-> "p1@x"])] }

ChannelFetchResults ==
    { [kind |-> "http", status |-> 200, message |-> Some(MSG_PLAIN)],
      [kind |-> "http", status |-> 404, message |-> None] }

\* Array.prototype.indexOf on the subscriber list, 0 when absent
IndexOfHandler(list, h) ==
    IF \E i \in 1..Len(list) : list[i].h = h
    THEN CHOOSE i \in 1..Len(list) :
            list[i].h = h /\ \A j \in 1..(i - 1) : list[j].h # h
    ELSE 0

\* Array.prototype.splice(index, 1)
RemoveAt(list, i) == SubSeq(list, 1, i - 1) \o SubSeq(list, i + 1, Len(list))

(***************************************************************************)
(* Webhook router: paths, bodies, accounts (channel-plugin.ts)             *)
(* A path or URL is a sequence of tokens: "/", "?", " " (white space) and  *)
(* words that contain none of them.                                        *)
(***************************************************************************)
\* maxBytes handed to readJsonBody: 1024 * 1024
MAX_BODY_BYTES == 1048576

\* "/webhooks/webex/"
WEBHOOK_PREFIX == <<"/", "webhooks", "/", "webex", "/">>

RECURSIVE TrimStart(_)
TrimStart(str) ==
    IF str # <<>> /\ Head(str) = " " THEN TrimStart(Tail(str)) ELSE str

RECURSIVE TrimEnd(_)
TrimEnd(str) ==
    IF str # <<>> /\ str[Len(str)] = " "
    THEN TrimEnd(SubSeq(str, 1, Len(str) - 1)) ELSE str

\* String.prototype.trim
Trim(str) == TrimEnd(TrimStart(str))

\* normalizeWebhookPath that leaves a trailing slash in place
normalizeWebhookPath_keepsSlash(raw) ==
    LET trimmed == Trim(raw)
        withSlash == IF StartsWith(trimmed, <<"/">>) THEN trimmed
                     ELSE <<"/">> \o trimmed
    IN  IF trimmed = <<>> THEN <<"/">> ELSE withSlash

normalizeWebhookPath(raw) ==
    LET trimmed == Trim(raw)
        withSlash == IF StartsWith(trimmed, <<"/">>) THEN trimmed
                     ELSE <<"/">> \o trimmed
    IN  IF trimmed = <<>> THEN <<"/">>
        ELSE IF Len(withSlash) > 1 /\ withSlash[Len(withSlash)] = "/"
        THEN SubSeq(withSlash, 1, Len(withSlash) - 1)
        ELSE withSlash

\* new URL(req.url ?? "/", "http://localhost").pathname for a request
\* target in origin form: white space around the input is dropped, the
\* path is the part before the query with "/" supplied in front when it is
\* missing, and a space left inside the path is percent-encoded
Pathname(url) ==
    LET input == Trim(url)
        cut == IF \E i \in 1..Len(input) : input[i] = "?"
               THEN (CHOOSE i \in 1..Len(input) :
                        input[i] = "?" /\ \A j \in 1..(i - 1) : input[j] # "?") - 1
               ELSE Len(input)
        path == SubSeq(input, 1, cut)
        encoded == [i \in 1..Len(path) |-> IF path[i] = " " THEN "%20" ELSE path[i]]
    IN  IF StartsWith(encoded, <<"/">>) THEN encoded ELSE <<"/">> \o encoded

\* the accounts of the deployment: id, configuration, and the id
\* /people/me answers for the account's token
Accounts == {"a", "b"}

AccountConfig(id) ==
    IF id = "a" THEN ChannelConfig("tok-a", WEBHOOK_URL, "allow", None, None)
    ELSE ChannelConfig("tok-b", WEBHOOK_URL, "deny", None, None)

AccountBotId(id) == IF id = "a" THEN "bot-a" ELSE "bot-b"

\* `/webhooks/webex/${account.accountId}`
AccountPath(id) == WEBHOOK_PREFIX \o <<id>>

\* req.url of the requests sent to the router
RequestUrls ==
    UNION { { AccountPath(id), AccountPath(id) \o <<"/">>,
              AccountPath(id) \o <<"?", "x=1">> } : id \in Accounts }
        \cup { WEBHOOK_PREFIX \o <<"zz">>, <<"/", "other">>, <<"/">> }

Methods == {"POST", "GET"}

\* the notifications a request body can carry
RouterPayloads ==
    { [resource |-> "messages", event |-> "created",
       data |-> WebhookData("group", [id |-> "person-1", email |-> "p1@x"])],
      [resource |-> "messages", event |-> "created",
       data |-> WebhookData("direct", [id |-> "person-1", email |-> "p1@x"])],
      [resource |-> "messages", event |-> "created",
       data |-> WebhookData("group", [id |-> "bot-a", email |-> "bot-a@x"])] }

\* a request body: the bytes its data events deliver, what JSON.parse makes
\* of them ("bad" when it throws, "null" for the JSON text null, else
\* "payload" and the notification), and whether the stream ends or emits
\* an error; a stream that fails has delivered a truncated text
Bodies ==
    [bytes : {MAX_BODY_BYTES}, json : {"payload"}, payload : {Some(p) : p \in RouterPayloads},
     stream : {"end"}]
    \cup [bytes : {MAX_BODY_BYTES, MAX_BODY_BYTES + 1}, json : {"bad", "null"},
          payload : {None}, stream : {"end"}]
    \cup [bytes : {MAX_BODY_BYTES, MAX_BODY_BYTES + 1}, json : {"bad"},
          payload : {None}, stream : {"error"}]
    \cup [bytes : {MAX_BODY_BYTES + 1}, json : {"payload"},
          payload : {Some(CHOOSE p \in RouterPayloads : p.data.roomType = "direct")},
          stream : {"end"}]

STREAM_ERROR_MSG == "aborted"

\* readJsonBody(req, maxBytes): the first of the three listeners to resolve
\* wins; the data listener sees the running total before the stream ends
readJsonBody(body, maxBytes) ==
    IF body.bytes > maxBytes
    THEN [ok |-> FALSE, value |-> None, error |-> "payload too large"]
    ELSE IF body.stream = "error"
    THEN [ok |-> FALSE, value |-> None, error |-> STREAM_ERROR_MSG]
    ELSE IF body.json = "bad"
    THEN [ok |-> FALSE, value |-> None, error |-> "invalid json"]
    ELSE [ok |-> TRUE, value |-> body.payload, error |-> ""]

\* every unreadable body answered 400
BodyErrorStatus_always400(error) == 400

\* the response written for a body that could not be read
BodyErrorStatus(error) == IF error = "payload too large" THEN 413 ELSE 400

(***************************************************************************)
(* State                                                                   *)
(***************************************************************************)
VARIABLES
    sender,      \* the WebexSender's retryOptions
    sEntry,      \* the public method of the call in progress
    sMsg,        \* the OpenClawOutboundMessage given to send()
    sReq,        \* the CreateMessageRequest built for the call
    sPc,         \* "idle", "calling", "sleeping", "done"
    sAttempt,    \* request(): attempt
    sLastError,  \* request(): lastError
    sDelay,      \* the backoff delay being slept, in 1 / DelayScale ms
    sOutcome,    \* what the call settled with
    sCalls,      \* history: executor calls made by the call in progress
    sTransient,  \* history: calls that failed with a transient error
    sTerminal,   \* history: calls that failed with any other error
    sSleeps,     \* history: backoff delays slept
    sLastFetch   \* history: what the latest executor call's fetch settled with

VARIABLES
    hConfig,     \* WebexWebhookHandler.config
    hBotId,      \* WebexWebhookHandler.botId
    hInit,       \* how the latest initialize() settled: "none", "ok", "failed"
    hPc,         \* handleWebhook in progress: "idle", "fetching", "done"
    hPayload,    \* its notification
    hSig,        \* the signature its caller handed in
    hResult,     \* what it settled with
    hFetches,    \* history: provider requests it has issued
    hFetched,    \* history: what its fetch of the message settled with
    hLast        \* history: the latest notification an envelope was returned for

handlerVars == <<hConfig, hBotId, hInit, hPc, hPayload, hSig, hResult, hFetches,
                 hFetched, hLast>>

VARIABLES
    cInitialized, \* WebexChannel.initialized
    cConfig,      \* WebexChannel.config
    cSender,      \* WebexChannel.sender: the sender's retryOptions
    cHandler,     \* WebexChannel.webhookHandler: [config, botId]
    cHandlers,    \* WebexChannel.messageHandlers: [h, old] in order
    cOp,          \* the latest facade call, how it came back and, for
                  \* initialize, the config it was given
    cDropped,     \* history: a shutdown has discarded a registered subscriber
    iPc,          \* initialize in progress: "idle", "fetching"
    iSame,        \* whether the handler object it is initializing is still
                  \* this.webhookHandler
    wPc,          \* handleWebhook in progress: "idle", "fetching",
                  \* "notifying", "done"
    wPayload,     \* its notification
    wEnvelope,    \* the envelope it obtained
    wCurrent,     \* whether the array it iterates is still this.messageHandlers
    wOld,         \* the array it iterates once shutdown has replaced it
    wIdx,         \* the iterator's next index (0-based)
    wInvoked,     \* history: the subscribers invoked, [h, old] in order
    wRaisedAt,    \* history: position in wInvoked of the first one that
                  \* threw, 0 when none did
    wTouched,     \* history: the array was pushed to or spliced while the
                  \* loop was iterating it
    wEarly,       \* history: a shutdown has run since the envelope being
                  \* delivered was obtained
    wResult       \* what it settled with

channelVars == <<cInitialized, cConfig, cSender, cHandler, cHandlers, cOp,
                 cDropped, iPc, iSame, wPc, wPayload, wEnvelope, wCurrent,
                 wOld, wIdx, wInvoked, wRaisedAt, wTouched, wEarly, wResult>>

VARIABLES
    rRuntime,    \* pluginRuntime has been set
    rTargets,    \* webhookTargets: a set of [key, target], one per key
    rFailed,     \* history: the keys a dispatch has answered 500 for
    aPc,         \* per account, where its startAccount stands: "stopped",
                 \* "initializing", "registering", "running"
    aBotId,      \* per account, botId of the handler startAccount constructed
    aLast,       \* history: per account, how its latest start or stop ended
    qPc,         \* the request in progress: "idle", "reading", "fetching",
                 \* "replying", "done"
    qReq,        \* its url, method and body
    qTarget,     \* the target the lookup returned
    qOut,        \* the handler's return value and what it wrote to res
    qRaised,     \* history: handleWebhook or the reply dispatcher threw
    qForward,    \* the context handed to the reply dispatcher
    qReply       \* the sender configuration a reply was delivered with

routerVars == <<rRuntime, rTargets, rFailed, aPc, aBotId, aLast,
                qPc, qReq, qTarget, qOut, qRaised, qForward, qReply>>

VARIABLES
    vCall        \* the latest verifySignature call: its arguments, how the
                 \* signature was made, and what the call settled with

verifyVars == <<vCall>>

VARIABLES
    pHooks,      \* the webhooks the provider holds
    gPc,         \* registerWebhooks in progress: "idle", "deleting",
                 \* "creating", "done"
    gExisting,   \* registerWebhooks: existing, as listWebhooks returned it
    gIdx,        \* registerWebhooks: position of the loop over existing
    gResult,     \* what registerWebhooks settled with
    gBefore,     \* history: the provider's webhooks when the call began
    gDeleted,    \* history: the ids the call has asked the provider to delete
    gRemoved     \* history: the ids the provider held and removed at the
                 \* call's request (answer 204)

registrarVars == <<pHooks, gPc, gExisting, gIdx, gResult, gBefore, gDeleted,
                   gRemoved>>

VARIABLES
    kSends       \* per concurrent call of request(): pc ("idle", "calling",
                 \* "sleeping", "done"), its locals attempt and lastError,
                 \* what it settled with, and, as history, what each of
                 \* its executor calls settled with

poolVars == <<kSends>>

VARIABLES
    lBefore,     \* history: isInitialized(), getConfig(), sender and
                 \* webhookHandler as they were when the initialize in
                 \* progress (or the latest one) was called
    dStayed,     \* history: the subscribers registered without a break
                 \* since notifyHandlers began its loop
    dMulti       \* history: the subscribers that held more than one
                 \* registration at some moment of the loop

VARIABLES
    uIssued      \* the unregister functions registerWebexWebhookTarget has
                 \* returned, in order: the key each closes over and, as
                 \* history, the target it was returned for and how many
                 \* times it has been called

closureVars == <<uIssued>>
lifecycleVars == <<lBefore>>
deliveryVars == <<dStayed, dMulti>>

extraVars == <<verifyVars, registrarVars, poolVars, lifecycleVars, deliveryVars,
               closureVars>>

senderVars == <<sender, sEntry, sMsg, sReq, sPc, sAttempt, sLastError, sDelay,
                sOutcome, sCalls, sTransient, sTerminal, sSleeps, sLastFetch>>

vars == <<senderVars, handlerVars, channelVars, routerVars, extraVars>>

\* the error classes of the taxonomy, on what the fetch settled with
FailedCall(fetched) == executeRequest(fetched).kind = "throw"
TransientFailure(fetched) ==
    \/ fetched.kind = "http" /\ fetched.status \in {429, 502, 503, 504}
    \/ fetched.kind = "reject"
        /\ Range(fetched.message) \cap {"ECONNRESET", "ETIMEDOUT", "ENOTFOUND"} # {}

SenderIdle ==
    /\ sEntry = "none" /\ sMsg = None /\ sReq = None /\ sPc = "idle"
    /\ sAttempt = 0 /\ sLastError = None /\ sDelay = 0 /\ sOutcome = None
    /\ sCalls = 0 /\ sTransient = 0 /\ sTerminal = 0 /\ sSleeps = 0
    /\ sLastFetch = None

SenderInit ==
    /\ sender \in {WebexSender(c) : c \in SenderConfigs}
    /\ SenderIdle

\* the sender while another component is examined
SenderParked ==
    /\ sender = WebexSender([maxRetries |-> None, retryDelayMs |-> None])
    /\ SenderIdle

HandlerIdle ==
    /\ hPc = "idle" /\ hPayload = None /\ hSig = None /\ hResult = None
    /\ hFetches = 0 /\ hFetched = None

\* new WebexWebhookHandler(config)
HandlerInit ==
    /\ hConfig \in HandlerConfigs
    /\ hBotId = None
    /\ hInit = "none"
    /\ hLast = None
    /\ HandlerIdle

\* the handler while another component is examined
HandlerParked ==
    /\ hConfig = ChannelConfig("tok", WEBHOOK_URL, "allow", None, None)
    /\ hBotId = None
    /\ hInit = "none"
    /\ hLast = None
    /\ HandlerIdle

WebhookCallIdle ==
    /\ wPc = "idle" /\ wPayload = None /\ wEnvelope = None /\ wCurrent = FALSE
    /\ wOld = <<>> /\ wIdx = 0 /\ wInvoked = <<>> /\ wRaisedAt = 0
    /\ wTouched = FALSE
    /\ wEarly = FALSE /\ wResult = None

\* new WebexChannel()
ChannelInit ==
    /\ cInitialized = FALSE
    /\ cConfig = None
    /\ cSender = None
    /\ cHandler = None
    /\ cHandlers = <<>>
    /\ cOp = [name |-> "new", result |-> "ok", arg |-> None]
    /\ cDropped = FALSE
    /\ iPc = "idle" /\ iSame = FALSE
    /\ WebhookCallIdle

\* nothing written to res, the handler has not returned
NoOutput ==
    [handled |-> "none", status |-> 0, body |-> "", allow |-> FALSE, writes |-> 0]

RequestIdle ==
    /\ qPc = "idle" /\ qReq = None /\ qTarget = None /\ qOut = NoOutput
    /\ qRaised = FALSE /\ qForward = None /\ qReply = None

\* the module as loaded: no runtime, an empty target map, no account started
RouterInit ==
    /\ rRuntime = FALSE
    /\ rTargets = {}
    /\ rFailed = {}
    /\ aPc = [id \in Accounts |-> "stopped"]
    /\ aBotId = [id \in Accounts |-> None]
    /\ aLast = [id \in Accounts |-> "none"]
    /\ RequestIdle

VerifyIdle == vCall = None

RegistrationIdle ==
    /\ gPc = "idle" /\ gExisting = <<>> /\ gIdx = 1 /\ gResult = None
    /\ gBefore = {} /\ gDeleted = {} /\ gRemoved = {}

\* the provider and the registration while another component is examined
RegistrarParked == pHooks = {} /\ RegistrationIdle

CallIds == 1..MaxConcurrent

\* no call of request() in progress
IdleCall ==
    [pc |-> "idle", attempt |-> 0, lastError |-> None, outcome |-> None,
     fetches |-> <<>>]

PoolIdle == kSends = [c \in CallIds |-> IdleCall]

\* the components examined by other specifications, at rest
\* no initialize has been called, no delivery has begun
LifecycleIdle == lBefore = None
DeliveryIdle == dStayed = {} /\ dMulti = {}
\* no unregister function has been returned
ClosuresIdle == uIssued = <<>>

ExtraParked ==
    /\ VerifyIdle /\ RegistrarParked /\ PoolIdle /\ LifecycleIdle /\ DeliveryIdle
    /\ ClosuresIdle

Init == SenderInit /\ HandlerParked /\ ChannelInit /\ RouterInit /\ ExtraParked

(***************************************************************************)
(* WebexSender actions                                                     *)
(***************************************************************************)
\* createMessage(request): validate, then enter request() with attempt = 0
createMessage(entry, message, request) ==
    /\ sPc = "idle"
    /\ sEntry' = entry
    /\ sMsg' = message
    /\ sReq' = Some(request)
    /\ sAttempt' = 0
    /\ sLastError' = None
    /\ IF IsSome(validateMessageRequest(request))
       THEN /\ sPc' = "done"
            /\ sOutcome' = Some(Throw(Val(validateMessageRequest(request))))
       ELSE IF LoopCondition(0, sender.maxRetries)
       THEN /\ sPc' = "calling"
            /\ sOutcome' = None
       ELSE /\ sPc' = "done"
            /\ sOutcome' = Some(Throw(PlainError(AFTER_RETRIES_MSG)))
    /\ UNCHANGED <<sender, sDelay, sCalls, sTransient, sTerminal, sSleeps, sLastFetch>>

Send ==
    \E message \in OutboundMessages :
        createMessage("send", Some(message), buildMessageRequest(message))

SendToRoom ==
    \E roomId \in {<<>>, PLAIN_ROOM}, text \in TextValues \ {None},
       markdown \in MarkdownValues :
        createMessage("sendToRoom", None,
            [EmptyRequest EXCEPT !.roomId = Some(roomId), !.text = text,
                                 !.markdown = markdown])

SendDirectById ==
    \E personId \in {ID_PREFIX \o PEOPLE_TAIL}, text \in TextValues \ {None},
       markdown \in MarkdownValues :
        createMessage("sendDirectById", None,
            [EmptyRequest EXCEPT !.toPersonId = Some(personId), !.text = text,
                                 !.markdown = markdown])

SendDirectByEmail ==
    \E email \in {EMAIL}, text \in TextValues \ {None},
       markdown \in MarkdownValues :
        createMessage("sendDirectByEmail", None,
            [EmptyRequest EXCEPT !.toPersonEmail = Some(email), !.text = text,
                                 !.markdown = markdown])

\* one pass of the loop body of request(): executeRequest settles
ExecuteRequest ==
    /\ sPc = "calling"
    /\ \E fetched \in FetchResults, k \in 0..(JitterSteps - 1) :
        LET result == executeRequest(fetched)
            attempt == sAttempt + 1
        IN  /\ sCalls' = sCalls + 1
            /\ sLastFetch' = Some(fetched)
            /\ sTransient' = IF FailedCall(fetched) /\ TransientFailure(fetched)
                             THEN sTransient + 1 ELSE sTransient
            /\ sTerminal' = IF FailedCall(fetched) /\ ~TransientFailure(fetched)
                            THEN sTerminal + 1 ELSE sTerminal
            /\ IF result.kind = "return"
               THEN /\ sPc' = "done"
                    /\ sOutcome' = Some(result)
                    /\ UNCHANGED <<sAttempt, sLastError, sDelay>>
               ELSE /\ sLastError' = result.error
                    /\ sAttempt' = attempt
                    /\ IF BudgetExhausted(attempt, sender.maxRetries)
                          \/ ~shouldRetry(Val(result.error), attempt)
                       THEN /\ sPc' = "done"
                            /\ sOutcome' = Some(Throw(Val(result.error)))
                            /\ UNCHANGED sDelay
                       ELSE /\ sPc' = "sleeping"
                            /\ sDelay' = calculateBackoff(sender.retryDelayMs, attempt, k)
                            /\ UNCHANGED sOutcome
    /\ UNCHANGED <<sender, sEntry, sMsg, sReq, sSleeps>>

\* the sleep ends and the loop condition is evaluated again
SleepDone ==
    /\ sPc = "sleeping"
    /\ sSleeps' = sSleeps + 1
    /\ sDelay' = 0
    /\ IF LoopCondition(sAttempt, sender.maxRetries)
       THEN /\ sPc' = "calling"
            /\ UNCHANGED sOutcome
       ELSE /\ sPc' = "done"
            /\ sOutcome' = Some(Throw(IF IsSome(sLastError) THEN Val(sLastError)
                                      ELSE PlainError(AFTER_RETRIES_MSG)))
    /\ UNCHANGED <<sender, sEntry, sMsg, sReq, sAttempt, sLastError,
                   sCalls, sTransient, sTerminal, sLastFetch>>

\* the caller takes the settled promise; nothing of the call is kept
SendSettled ==
    /\ sPc = "done"
    /\ sEntry' = "none" /\ sMsg' = None /\ sReq' = None /\ sPc' = "idle"
    /\ sAttempt' = 0 /\ sLastError' = None /\ sDelay' = 0 /\ sOutcome' = None
    /\ sCalls' = 0 /\ sTransient' = 0 /\ sTerminal' = 0 /\ sSleeps' = 0
    /\ sLastFetch' = None
    /\ UNCHANGED sender

SenderNext ==
    \/ Send
    \/ SendToRoom
    \/ SendDirectById
    \/ SendDirectByEmail
    \/ ExecuteRequest
    \/ SleepDone
    \/ SendSettled

Next == SenderNext /\ UNCHANGED <<handlerVars, channelVars, routerVars, extraVars>>

Spec == Init /\ [][Next]_vars

(***************************************************************************)
(* Several calls of request() in progress on one WebexSender               *)
(***************************************************************************)
\* what the executor calls of concurrent sends settle with: a success, a
\* transient failure, a failure that is not retried
PoolFetchResults ==
    {f \in FetchResults :
        f.kind = "http" /\ f.status \in {200, 503, 400} /\ f.body = Some(<<>>)}

\* an attempt counter kept on the sender and shared by its calls
AttemptOf_shared(sends, c) ==
    LET RECURSIVE Sum(_)
        Sum(n) == IF n = 0 THEN 0 ELSE sends[n].attempt + Sum(n - 1)
    IN  Sum(MaxConcurrent)

\* request(): the local `attempt` of call c
AttemptOf(sends, c) == sends[c].attempt

\* a send passes validation and enters request()
PoolSend ==
    /\ \E c \in CallIds :
        /\ kSends[c].pc = "idle"
        /\ kSends' = [kSends EXCEPT ![c] =
                IF LoopCondition(0, sender.maxRetries)
                THEN [IdleCall EXCEPT !.pc = "calling"]
                ELSE [IdleCall EXCEPT !.pc = "done",
                        !.outcome = Some(Throw(PlainError(AFTER_RETRIES_MSG)))]]
    /\ UNCHANGED senderVars

\* the executor call of one of the sends settles
PoolExecute ==
    /\ \E c \in CallIds : \E fetched \in PoolFetchResults :
        LET result == executeRequest(fetched)
            attempt == AttemptOf(kSends, c) + 1
            call == [kSends[c] EXCEPT !.fetches = Append(@, fetched)]
        IN  /\ kSends[c].pc = "calling"
            /\ kSends' = [kSends EXCEPT ![c] =
                    IF result.kind = "return"
                    THEN [call EXCEPT !.pc = "done", !.outcome = Some(result)]
                    ELSE IF BudgetExhausted(attempt, sender.maxRetries)
                            \/ ~shouldRetry(Val(result.error), attempt)
                    THEN [call EXCEPT !.pc = "done", !.attempt = attempt,
                            !.lastError = result.error,
                            !.outcome = Some(Throw(Val(result.error)))]
                    ELSE [call EXCEPT !.pc = "sleeping", !.attempt = attempt,
                            !.lastError = result.error]]
    /\ UNCHANGED senderVars

\* the backoff sleep of one of the sends ends
PoolSleepDone ==
    /\ \E c \in CallIds :
        /\ kSends[c].pc = "sleeping"
        /\ kSends' = [kSends EXCEPT ![c] =
                IF LoopCondition(AttemptOf(kSends, c), sender.maxRetries)
                THEN [@ EXCEPT !.pc = "calling"]
                ELSE [@ EXCEPT !.pc = "done",
                        !.outcome = Some(Throw(IF IsSome(@.lastError)
                                               THEN Val(@.lastError)
                                               ELSE PlainError(AFTER_RETRIES_MSG)))]]
    /\ UNCHANGED senderVars

\* the caller of one of the sends takes the settled promise
PoolSettled ==
    /\ \E c \in CallIds :
        /\ kSends[c].pc = "done"
        /\ kSends' = [kSends EXCEPT ![c] = IdleCall]
    /\ UNCHANGED senderVars

PoolActions ==
    \/ PoolSend
    \/ PoolExecute
    \/ PoolSleepDone
    \/ PoolSettled

PoolInit ==
    /\ sender \in {WebexSender(c) : c \in {k \in SenderConfigs : k.retryDelayMs = None}}
    /\ SenderIdle
    /\ HandlerParked /\ ChannelInit /\ RouterInit
    /\ VerifyIdle /\ RegistrarParked /\ PoolIdle /\ LifecycleIdle /\ DeliveryIdle
    /\ ClosuresIdle

PoolNext ==
    PoolActions
        /\ UNCHANGED <<handlerVars, channelVars, routerVars, verifyVars, registrarVars,
                       lifecycleVars, deliveryVars, closureVars>>

SpecPool == PoolInit /\ [][PoolNext]_vars

(***************************************************************************)
(* WebexWebhookHandler actions                                             *)
(***************************************************************************)
\* initialize(): getBotInfo answers, or fails and the exception escapes
HandlerInitialize ==
    /\ hPc = "idle"
    /\ \E ok \in BOOLEAN :
        /\ hBotId' = IF ok THEN Some(BOT_ID) ELSE hBotId
        /\ hInit' = IF ok THEN "ok" ELSE "failed"
    /\ UNCHANGED <<hConfig, hPayload, hSig, hResult, hFetches, hFetched, hLast, hPc>>

\* a handleWebhook that returns null for a notification it has returned an
\* envelope for before
HandleWebhook_dedup ==
    /\ hPc = "idle"
    /\ \E payload \in Payloads :
        \E signature \in SignatureValues(payload) :
            /\ hPayload' = Some(payload)
            /\ hSig' = signature
            /\ IF \/ handleWebhookFilters(hConfig, hBotId, payload) = "null"
                  \/ hLast = Some(payload)
               THEN /\ hPc' = "done"
                    /\ hResult' = Some(Return(None))
                    /\ hFetches' = 0
               ELSE /\ hPc' = "fetching"
                    /\ hResult' = None
                    /\ hFetches' = 1
    /\ UNCHANGED <<hConfig, hBotId, hInit, hFetched, hLast>>

\* handleWebhook(payload) called with (payload, signature), up to the fetch
HandleWebhook ==
    /\ hPc = "idle"
    /\ \E payload \in Payloads :
        \E signature \in SignatureValues(payload) :
            /\ hPayload' = Some(payload)
            /\ hSig' = signature
            /\ IF handleWebhookFilters(hConfig, hBotId, payload) = "null"
               THEN /\ hPc' = "done"
                    /\ hResult' = Some(Return(None))
                    /\ hFetches' = 0
               ELSE /\ hPc' = "fetching"
                    /\ hResult' = None
                    /\ hFetches' = 1
    /\ UNCHANGED <<hConfig, hBotId, hInit, hFetched, hLast>>

\* the fetch of the full message settles and the envelope is built
MessageFetched ==
    /\ hPc = "fetching"
    /\ \E fetched \in MessageFetchResults :
        /\ hFetched' = Some(fetched)
        /\ hResult' = Some(fetchAndNormalize(fetched))
    /\ hPc' = "done"
    /\ UNCHANGED <<hConfig, hBotId, hInit, hPayload, hSig, hFetches, hLast>>

\* the caller takes the result; the handler keeps nothing of the call
HandleSettled ==
    /\ hPc = "done"
    /\ hPc' = "idle" /\ hPayload' = None /\ hSig' = None /\ hResult' = None
    /\ hFetches' = 0 /\ hFetched' = None
    /\ hLast' = IF Val(hResult).kind = "return" /\ IsSome(Val(hResult).value)
                THEN hPayload ELSE hLast
    /\ UNCHANGED <<hConfig, hBotId, hInit>>

HandlerNext ==
    \/ HandlerInitialize
    \/ HandleWebhook
    \/ MessageFetched
    \/ HandleSettled

HookInit == SenderParked /\ HandlerInit /\ ChannelInit /\ RouterInit /\ ExtraParked

HookNext == HandlerNext /\ UNCHANGED <<senderVars, channelVars, routerVars, extraVars>>

SpecHook == HookInit /\ [][HookNext]_vars

\* verifySignature(payload, signature, originalBody) called on the handler
VerifySignature ==
    /\ vCall = None
    /\ \E payload \in Payloads : \E originalBody \in RawBodies(payload) :
        \E input \in SignatureInputs(SignedBody(payload, originalBody)) :
            vCall' = Some([payload |-> payload,
                           originalBody |-> originalBody,
                           input |-> input,
                           result |-> verifySignature(hConfig, payload,
                                                      input.signature, originalBody)])
    /\ UNCHANGED handlerVars

\* the caller takes the verdict
VerifySettled ==
    /\ vCall # None
    /\ vCall' = None
    /\ UNCHANGED handlerVars

VerifyActions ==
    \/ HandlerInitialize /\ UNCHANGED verifyVars
    \/ VerifySignature
    \/ VerifySettled

VerifyNext ==
    VerifyActions
        /\ UNCHANGED <<senderVars, channelVars, routerVars, registrarVars, poolVars,
                       lifecycleVars, deliveryVars, closureVars>>

SpecVerify == HookInit /\ [][VerifyNext]_vars

(***************************************************************************)
(* WebexWebhookHandler.registerWebhooks against the provider               *)
(***************************************************************************)
\* registerWebhooks(), up to the answer of listWebhooks
RegisterWebhooksBegin ==
    /\ gPc = "idle"
    /\ gBefore' = pHooks
    /\ gDeleted' = {}
    /\ gRemoved' = {}
    /\ \/ \E items \in Orderings(pHooks) :
            /\ gExisting' = items
            /\ gIdx' = 1
            /\ gPc' = "deleting"
            /\ gResult' = None
       \/ /\ gPc' = "done"
          /\ gResult' = Some(Throw(PlainError(LIST_FAILED_MSG)))
          /\ UNCHANGED <<gExisting, gIdx>>
    /\ UNCHANGED pHooks

\* one turn of the loop over existing: deleteWebhook for a webhook with the
\* configured target URL, answered 204, 404 when the provider no longer
\* holds it, or with a failure that ends the call
DeleteExisting ==
    /\ gPc = "deleting"
    /\ gIdx <= Len(gExisting)
    /\ LET webhook == gExisting[gIdx]
       IN  IF ~IsDuplicate(webhook, hConfig.webhookUrl)
           THEN /\ gIdx' = gIdx + 1
                /\ UNCHANGED <<pHooks, gPc, gResult, gDeleted, gRemoved>>
           ELSE \/ /\ pHooks' = {h \in pHooks : h.id # webhook.id}
                   /\ gDeleted' = gDeleted \cup {webhook.id}
                   /\ gRemoved' = gRemoved \cup
                        {h.id : h \in {k \in pHooks : k.id = webhook.id}}
                   /\ gIdx' = gIdx + 1
                   /\ UNCHANGED <<gPc, gResult>>
                \/ /\ \E h \in pHooks : h.id = webhook.id
                   /\ gPc' = "done"
                   /\ gResult' = Some(Throw(PlainError(DELETE_FAILED_MSG)))
                   /\ UNCHANGED <<pHooks, gIdx, gDeleted, gRemoved>>
    /\ UNCHANGED <<gExisting, gBefore>>

\* the loop is over: createWebhook, answered with the webhook created or
\* with a failure
CreateWebhook ==
    /\ gPc = "deleting"
    /\ gIdx > Len(gExisting)
    /\ \/ \E id \in NewIds :
            LET request == CreateWebhookRequest(hConfig)
                created == Webhook(id, request.targetUrl, request.resource,
                                   request.event)
            IN  /\ \A h \in pHooks \cup gBefore : h.id # id
                /\ pHooks' = pHooks \cup {created}
                /\ gResult' = Some(Return(<<created>>))
       \/ /\ gResult' = Some(Throw(PlainError(CREATE_FAILED_MSG)))
          /\ UNCHANGED pHooks
    /\ gPc' = "done"
    /\ UNCHANGED <<gExisting, gIdx, gBefore, gDeleted, gRemoved>>

\* the caller takes the result
RegistrationSettled ==
    /\ gPc = "done"
    /\ gPc' = "idle" /\ gExisting' = <<>> /\ gIdx' = 1 /\ gResult' = None
    /\ gBefore' = {} /\ gDeleted' = {} /\ gRemoved' = {}
    /\ UNCHANGED pHooks

\* another client of the provider deletes a webhook
HookRemovedElsewhere ==
    /\ \E h \in pHooks : pHooks' = pHooks \ {h}
    /\ UNCHANGED <<gPc, gExisting, gIdx, gResult, gBefore, gDeleted, gRemoved>>

RegistrarActions ==
    \/ RegisterWebhooksBegin
    \/ DeleteExisting
    \/ CreateWebhook
    \/ RegistrationSettled
    \/ HookRemovedElsewhere

RegistrarInit ==
    /\ SenderParked /\ HandlerInit /\ ChannelInit /\ RouterInit /\ VerifyIdle
    /\ PoolIdle /\ LifecycleIdle /\ DeliveryIdle /\ ClosuresIdle
    /\ pHooks \in SUBSET ProviderHooks
    /\ RegistrationIdle

RegistrarNext ==
    RegistrarActions
        /\ UNCHANGED <<senderVars, handlerVars, channelVars, routerVars, verifyVars,
                       poolVars, lifecycleVars, deliveryVars, closureVars>>

SpecRegistrar == RegistrarInit /\ [][RegistrarNext]_vars

(***************************************************************************)
(* WebexChannel actions (channel.ts)                                       *)
(***************************************************************************)
\* ensureInitialized() that tests the references only
ensureInitialized_noFlag == IsSome(cConfig) /\ IsSome(cSender) /\ IsSome(cHandler)

\* ensureInitialized() returns without throwing
ensureInitialized ==
    cInitialized /\ IsSome(cConfig) /\ IsSome(cSender) /\ IsSome(cHandler)

webhookCallVars == <<wPc, wPayload, wEnvelope, wCurrent, wOld, wIdx, wInvoked,
                     wRaisedAt, wTouched, wEarly, wResult>>
initializeVars == <<iPc, iSame>>
facadeFields == <<cInitialized, cConfig, cSender, cHandler, cHandlers>>

\* initialize(config), up to the await of the identity fetch
InitializeBegin ==
    /\ iPc = "idle"
    /\ \E config \in ChannelConfigs :
        IF IsSome(validateConfig(config))
        THEN /\ cOp' = [name |-> "initialize", result |-> "config-error",
                          arg |-> Some(config)]
             /\ UNCHANGED <<facadeFields, initializeVars>>
        ELSE LET handler == [config |-> MergeDefaults(config), botId |-> None]
             IN  /\ cConfig' = Some(MergeDefaults(config))
                 /\ cSender' = Some(WebexSender(MergeDefaults(config)))
                 /\ cHandler' = Some(handler)
                 /\ iPc' = "fetching"
                 /\ iSame' = TRUE
                 /\ cOp' = [name |-> "initialize", result |-> "pending",
                              arg |-> Some(config)]
                 /\ UNCHANGED <<cInitialized, cHandlers>>
    /\ UNCHANGED <<cDropped, webhookCallVars>>

\* the identity fetch settles: the handler object gets its botId and the
\* facade its flag, or the exception escapes initialize()
InitializeFinish ==
    /\ iPc = "fetching"
    /\ \E ok \in BOOLEAN :
        IF ok
        THEN /\ cHandler' = IF iSame
                            THEN Some([Val(cHandler) EXCEPT !.botId = Some(BOT_ID)])
                            ELSE cHandler
             /\ cInitialized' = TRUE
             /\ cOp' = [name |-> "initialize", result |-> "ok", arg |-> None]
        ELSE /\ cOp' = [name |-> "initialize", result |-> "error", arg |-> None]
             /\ UNCHANGED <<cHandler, cInitialized>>
    /\ iPc' = "idle" /\ iSame' = FALSE
    /\ UNCHANGED <<cConfig, cSender, cHandlers, cDropped, webhookCallVars>>

\* shutdown() that leaves the subscriber list in place
Shutdown_keepsSubscribers ==
    /\ cHandlers' = [i \in 1..Len(cHandlers) |-> [cHandlers[i] EXCEPT !.old = TRUE]]
    /\ cSender' = None
    /\ cHandler' = None
    /\ cConfig' = None
    /\ cInitialized' = FALSE
    /\ cOp' = [name |-> "shutdown", result |-> "ok", arg |-> None]
    /\ cDropped' = (cDropped \/ cHandlers # <<>>)
    /\ iSame' = FALSE
    /\ wEarly' = (wEarly \/ wPc = "notifying")
    /\ UNCHANGED <<iPc, wPc, wPayload, wEnvelope, wIdx, wInvoked, wRaisedAt,
                   wTouched, wResult, wCurrent, wOld>>

\* shutdown(): a fresh empty array replaces the subscriber list, so a
\* delivery in progress keeps iterating the array it started with
Shutdown ==
    /\ cHandlers' = <<>>
    /\ cSender' = None
    /\ cHandler' = None
    /\ cConfig' = None
    /\ cInitialized' = FALSE
    /\ cOp' = [name |-> "shutdown", result |-> "ok", arg |-> None]
    /\ cDropped' = (cDropped \/ cHandlers # <<>>)
    /\ iSame' = FALSE
    /\ wEarly' = (wEarly \/ wPc = "notifying")
    /\ IF wPc = "notifying" /\ wCurrent
       THEN /\ wCurrent' = FALSE
            /\ wOld' = [i \in 1..Len(cHandlers) |-> [cHandlers[i] EXCEPT !.old = TRUE]]
       ELSE UNCHANGED <<wCurrent, wOld>>
    /\ UNCHANGED <<iPc, wPc, wPayload, wEnvelope, wIdx, wInvoked, wRaisedAt,
                   wTouched,
                   wResult>>

\* onMessage(handler)
OnMessage ==
    /\ Len(cHandlers) < MaxSubscribers
    /\ \E h \in Subscribers :
        cHandlers' = Append(cHandlers, [h |-> h, old |-> FALSE])
    /\ cOp' = [name |-> "onMessage", result |-> "ok", arg |-> None]
    /\ wTouched' = (wTouched \/ (wPc = "notifying" /\ wCurrent))
    /\ UNCHANGED <<cInitialized, cConfig, cSender, cHandler, cDropped,
                   initializeVars, wPc, wPayload, wEnvelope, wCurrent, wOld,
                   wIdx, wInvoked, wRaisedAt, wEarly, wResult>>

\* offMessage(handler)
OffMessage ==
    /\ \E h \in Subscribers :
        cHandlers' = IF IndexOfHandler(cHandlers, h) # 0
                     THEN RemoveAt(cHandlers, IndexOfHandler(cHandlers, h))
                     ELSE cHandlers
    /\ cOp' = [name |-> "offMessage", result |-> "ok", arg |-> None]
    /\ wTouched' = (wTouched \/ (wPc = "notifying" /\ wCurrent
                                    /\ cHandlers' # cHandlers))
    /\ UNCHANGED <<cInitialized, cConfig, cSender, cHandler, cDropped,
                   initializeVars, wPc, wPayload, wEnvelope, wCurrent, wOld,
                   wIdx, wInvoked, wRaisedAt, wEarly, wResult>>

\* a method that checks ensureInitialized() and then hands the call to the
\* sender or the webhook handler
DelegatingCall(name) ==
    /\ cOp' = [name |-> name,
               result |-> IF ensureInitialized THEN "delegated"
                          ELSE "not-initialized",
               arg |-> None]
    /\ UNCHANGED <<facadeFields, cDropped, initializeVars, webhookCallVars>>

ChannelSend == DelegatingCall("send")
RegisterWebhooks == DelegatingCall("registerWebhooks")
GetSender == DelegatingCall("getSender")
GetWebhookHandler == DelegatingCall("getWebhookHandler")

\* handleWebhook(payload, signature), up to the handler's fetch
HandleWebhookBegin ==
    /\ wPc = "idle"
    /\ \E payload \in ChannelPayloads :
        /\ wPayload' = Some(payload)
        /\ IF ~ensureInitialized
           THEN /\ cOp' = [name |-> "handleWebhook", result |-> "not-initialized", arg |-> None]
                /\ wPc' = "done"
                /\ wResult' = Some(Throw(PlainError(NOT_INITIALIZED_MSG)))
           ELSE /\ cOp' = [name |-> "handleWebhook", result |-> "delegated", arg |-> None]
                /\ IF handleWebhookFilters(Val(cHandler).config,
                                           Val(cHandler).botId, payload) = "null"
                   THEN /\ wPc' = "done"
                        /\ wResult' = Some(Return(None))
                   ELSE /\ wPc' = "fetching"
                        /\ wResult' = None
    /\ wEarly' = FALSE
    /\ UNCHANGED <<facadeFields, cDropped, initializeVars, wEnvelope, wCurrent,
                   wOld, wIdx, wInvoked, wRaisedAt, wTouched>>

\* the handler's fetch settles; a non-null envelope starts notifyHandlers
\* on the array that is this.messageHandlers at that moment
WebhookFetched ==
    /\ wPc = "fetching"
    /\ \E fetched \in ChannelFetchResults :
        LET result == fetchAndNormalize(fetched)
        IN  IF result.kind = "throw"
            THEN /\ wPc' = "done"
                 /\ wResult' = Some(result)
                 /\ UNCHANGED <<wEnvelope, wCurrent, wIdx>>
            ELSE /\ wPc' = "notifying"
                 /\ wEnvelope' = result.value
                 /\ wCurrent' = TRUE
                 /\ wIdx' = 0
                 /\ UNCHANGED wResult
    /\ UNCHANGED <<facadeFields, cOp, cDropped, initializeVars, wPayload, wOld,
                   wInvoked, wRaisedAt, wTouched, wEarly>>

\* notifyHandlers without the try/catch: a subscriber's throw ends the loop
\* and rejects handleWebhook
NotifyStep_propagates ==
    /\ wPc = "notifying"
    /\ LET array == IF wCurrent THEN cHandlers ELSE wOld
       IN  IF wIdx >= Len(array)
           THEN /\ wPc' = "done"
                /\ wResult' = Some(Return(wEnvelope))
                /\ wCurrent' = FALSE
                /\ wOld' = <<>>
                /\ UNCHANGED <<wIdx, wInvoked, wRaisedAt>>
           ELSE /\ wInvoked' = Append(wInvoked,
                        [h |-> array[wIdx + 1].h, old |-> array[wIdx + 1].old])
                /\ \E raised \in BOOLEAN :
                    IF raised
                    THEN /\ wRaisedAt' = Len(wInvoked) + 1
                         /\ wPc' = "done"
                         /\ wResult' = Some(Throw(PlainError(<<"subscriber">>)))
                         /\ wCurrent' = FALSE
                         /\ wOld' = <<>>
                         /\ UNCHANGED wIdx
                    ELSE /\ wIdx' = wIdx + 1
                         /\ UNCHANGED <<wPc, wResult, wCurrent, wOld, wRaisedAt>>
    /\ UNCHANGED <<facadeFields, cOp, cDropped, initializeVars, wPayload, wEnvelope,
                   wTouched, wEarly>>

\* one turn of the for-of loop of notifyHandlers: the iterator is asked for
\* the element at its index; the subscriber there is called and awaited, a
\* throw being caught and logged
NotifyStep ==
    /\ wPc = "notifying"
    /\ LET array == IF wCurrent THEN cHandlers ELSE wOld
       IN  IF wIdx >= Len(array)
           THEN /\ wPc' = "done"
                /\ wResult' = Some(Return(wEnvelope))
                /\ wCurrent' = FALSE
                /\ wOld' = <<>>
                /\ UNCHANGED <<wIdx, wInvoked, wRaisedAt>>
           ELSE /\ wInvoked' = Append(wInvoked,
                        [h |-> array[wIdx + 1].h, old |-> array[wIdx + 1].old])
                /\ \E raised \in BOOLEAN :
                    wRaisedAt' = IF raised /\ wRaisedAt = 0
                                 THEN Len(wInvoked) + 1 ELSE wRaisedAt
                /\ wIdx' = wIdx + 1
                /\ UNCHANGED <<wPc, wResult, wCurrent, wOld>>
    /\ UNCHANGED <<facadeFields, cOp, cDropped, initializeVars, wPayload, wEnvelope,
                   wTouched, wEarly>>

\* the caller takes the result of handleWebhook
WebhookSettled ==
    /\ wPc = "done"
    /\ wPc' = "idle" /\ wPayload' = None /\ wEnvelope' = None /\ wCurrent' = FALSE
    /\ wOld' = <<>> /\ wIdx' = 0 /\ wInvoked' = <<>> /\ wRaisedAt' = 0
    /\ wTouched' = FALSE
    /\ wEarly' = FALSE /\ wResult' = None
    /\ UNCHANGED <<facadeFields, cOp, cDropped, initializeVars>>

ChannelActions ==
    \/ InitializeBegin
    \/ InitializeFinish
    \/ Shutdown
    \/ OnMessage
    \/ OffMessage
    \/ ChannelSend
    \/ RegisterWebhooks
    \/ GetSender
    \/ GetWebhookHandler
    \/ HandleWebhookBegin
    \/ WebhookFetched
    \/ NotifyStep
    \/ WebhookSettled

ChannelSpecInit == SenderParked /\ HandlerParked /\ ChannelInit /\ RouterInit /\ ExtraParked

ChannelNext == ChannelActions /\ UNCHANGED <<senderVars, handlerVars, routerVars, extraVars>>

SpecChannel == ChannelSpecInit /\ [][ChannelNext]_vars

(***************************************************************************)
(* WebexChannel: initialize, shutdown and the guarded calls, with what the *)
(* facade's getters returned when initialize was called                    *)
(***************************************************************************)
\* isInitialized(), getConfig() and the two private references
Snapshot ==
    [initialized |-> cInitialized, config |-> cConfig, sender |-> cSender,
     handler |-> cHandler]

InitializeCall == InitializeBegin /\ lBefore' = Some(Snapshot)
InitializeReturn == InitializeFinish /\ UNCHANGED lBefore
ShutdownCall == Shutdown /\ UNCHANGED lBefore
SendCall == ChannelSend /\ UNCHANGED lBefore
GetSenderCall == GetSender /\ UNCHANGED lBefore
RegisterWebhooksCall == RegisterWebhooks /\ UNCHANGED lBefore
GetWebhookHandlerCall == GetWebhookHandler /\ UNCHANGED lBefore

LifecycleActions ==
    \/ InitializeCall
    \/ InitializeReturn
    \/ ShutdownCall
    \/ SendCall
    \/ GetSenderCall
    \/ RegisterWebhooksCall
    \/ GetWebhookHandlerCall

LifecycleNext ==
    LifecycleActions
        /\ UNCHANGED <<senderVars, handlerVars, routerVars, verifyVars,
                       registrarVars, poolVars, deliveryVars, closureVars>>

SpecLifecycle == ChannelSpecInit /\ [][LifecycleNext]_vars

(***************************************************************************)
(* WebexChannel: onMessage and offMessage while notifyHandlers is          *)
(* suspended at a subscriber, with the subscribers that stay registered    *)
(***************************************************************************)
\* the handlers in this.messageHandlers, and those that occur in it twice
RegisteredHandlers(list) == {list[i].h : i \in 1..Len(list)}
RegisteredTwice(list) ==
    {h \in RegisteredHandlers(list) :
        Cardinality({i \in 1..Len(list) : list[i].h = h}) > 1}

\* the history kept along a step of the facade
TrackDelivery ==
    IF wPc' = "notifying"
    THEN IF wPc # "notifying"
         THEN /\ dStayed' = RegisteredHandlers(cHandlers')
              /\ dMulti' = RegisteredTwice(cHandlers')
         ELSE /\ dStayed' = dStayed \cap RegisteredHandlers(cHandlers')
              /\ dMulti' = dMulti \cup RegisteredTwice(cHandlers')
    ELSE IF wPc' = "idle"
    THEN dStayed' = {} /\ dMulti' = {}
    ELSE UNCHANGED <<dStayed, dMulti>>

DeliveryActions ==
    \/ InitializeBegin /\ TrackDelivery
    \/ InitializeFinish /\ TrackDelivery
    \/ OnMessage /\ TrackDelivery
    \/ OffMessage /\ TrackDelivery
    \/ HandleWebhookBegin /\ TrackDelivery
    \/ WebhookFetched /\ TrackDelivery
    \/ NotifyStep /\ TrackDelivery
    \/ WebhookSettled /\ TrackDelivery

DeliveryNext ==
    DeliveryActions
        /\ UNCHANGED <<senderVars, handlerVars, routerVars, verifyVars,
                       registrarVars, poolVars, lifecycleVars, closureVars>>

SpecDelivery == ChannelSpecInit /\ [][DeliveryNext]_vars

(***************************************************************************)
(* Webhook router and account gateway actions (channel-plugin.ts)          *)
(***************************************************************************)
\* a lookup that returns whichever target the map holds
GetTarget_anyKey(targets, key) ==
    IF targets # {} THEN Some((CHOOSE e \in targets : TRUE).target) ELSE None

\* webhookTargets.get(key)
GetTarget(targets, key) ==
    IF \E e \in targets : e.key = key
    THEN Some((CHOOSE e \in targets : e.key = key).target)
    ELSE None

\* webhookTargets.delete(key)
DeleteTarget(targets, key) == {e \in targets : e.key # key}

\* webhookTargets.set(key, target)
SetTarget(targets, key, target) ==
    DeleteTarget(targets, key) \cup {[key |-> key, target |-> target]}

\* the target startAccount registers: { account, config, webhookHandler }
AccountTarget(id, botId) ==
    [account |-> [accountId |-> id, config |-> AccountConfig(id)],
     config |-> AccountConfig(id),
     webhookHandler |-> [config |-> AccountConfig(id), botId |-> botId]]

\* setPluginRuntime(runtime)
SetPluginRuntime ==
    /\ ~rRuntime
    /\ rRuntime' = TRUE
    /\ UNCHANGED <<rTargets, rFailed, aPc, aBotId, aLast,
                   qPc, qReq, qTarget, qOut, qRaised, qForward, qReply>>

\* gateway.startAccount, up to the await of webhookHandler.initialize()
StartAccount ==
    /\ \E id \in Accounts :
        /\ aPc[id] = "stopped"
        /\ aPc' = [aPc EXCEPT ![id] = "initializing"]
        /\ aBotId' = [aBotId EXCEPT ![id] = None]
    /\ UNCHANGED <<rRuntime, rTargets, rFailed, aLast,
                   qPc, qReq, qTarget, qOut, qRaised, qForward, qReply>>

\* webhookHandler.initialize() settles: startAccount goes on to
\* registerWebhooks, or rejects with the handler's error
AccountInitialized ==
    /\ \E id \in Accounts :
        /\ aPc[id] = "initializing"
        /\ \E ok \in BOOLEAN :
            IF ok
            THEN /\ aBotId' = [aBotId EXCEPT ![id] = Some(AccountBotId(id))]
                 /\ aPc' = [aPc EXCEPT ![id] = "registering"]
                 /\ UNCHANGED aLast
            ELSE /\ aPc' = [aPc EXCEPT ![id] = "stopped"]
                 /\ aLast' = [aLast EXCEPT ![id] = "init-failed"]
                 /\ UNCHANGED aBotId
    /\ UNCHANGED <<rRuntime, rTargets, rFailed,
                   qPc, qReq, qTarget, qOut, qRaised, qForward, qReply>>

\* startAccount that gives up when registerWebhooks fails
WebhooksRegistered_giveUp ==
    /\ \E id \in Accounts :
        /\ aPc[id] = "registering"
        /\ \E ok \in BOOLEAN :
            IF ok
            THEN /\ rTargets' = SetTarget(rTargets, normalizeWebhookPath(AccountPath(id)),
                                          AccountTarget(id, aBotId[id]))
                 /\ aPc' = [aPc EXCEPT ![id] = "running"]
                 /\ aLast' = [aLast EXCEPT ![id] = "started"]
            ELSE /\ aPc' = [aPc EXCEPT ![id] = "stopped"]
                 /\ aLast' = [aLast EXCEPT ![id] = "hooks-failed"]
                 /\ UNCHANGED rTargets
    /\ UNCHANGED <<rRuntime, rFailed, aBotId,
                   qPc, qReq, qTarget, qOut, qRaised, qForward, qReply>>

\* webhookHandler.registerWebhooks() settles, its failure only logged; then
\* the target is registered under the account's path and startAccount
\* returns the stop callback
WebhooksRegistered ==
    /\ \E id \in Accounts :
        /\ aPc[id] = "registering"
        /\ rTargets' = SetTarget(rTargets, normalizeWebhookPath(AccountPath(id)),
                                 AccountTarget(id, aBotId[id]))
        /\ aPc' = [aPc EXCEPT ![id] = "running"]
        /\ \E ok \in BOOLEAN :
            aLast' = [aLast EXCEPT ![id] = IF ok THEN "started"
                                           ELSE "started-hooks-failed"]
    /\ UNCHANGED <<rRuntime, rFailed, aBotId,
                   qPc, qReq, qTarget, qOut, qRaised, qForward, qReply>>

\* a stop callback that also gives up the request in progress
StopAccount_abortsInFlight ==
    /\ \E id \in Accounts :
        /\ aPc[id] = "running"
        /\ rTargets' = DeleteTarget(rTargets, normalizeWebhookPath(AccountPath(id)))
        /\ aPc' = [aPc EXCEPT ![id] = "stopped"]
        /\ aLast' = [aLast EXCEPT ![id] = "stopped"]
    /\ IF qPc \in {"reading", "fetching", "replying"}
       THEN /\ qPc' = "done"
            /\ qTarget' = None
            /\ qOut' = [qOut EXCEPT !.handled = "false"]
       ELSE UNCHANGED <<qPc, qTarget, qOut>>
    /\ UNCHANGED <<rRuntime, rFailed, aBotId, qReq, qRaised, qForward, qReply>>

\* the stop callback startAccount returned: unregister()
StopAccount ==
    /\ \E id \in Accounts :
        /\ aPc[id] = "running"
        /\ rTargets' = DeleteTarget(rTargets, normalizeWebhookPath(AccountPath(id)))
        /\ aPc' = [aPc EXCEPT ![id] = "stopped"]
        /\ aLast' = [aLast EXCEPT ![id] = "stopped"]
    /\ UNCHANGED <<rRuntime, rFailed, aBotId,
                   qPc, qReq, qTarget, qOut, qRaised, qForward, qReply>>

\* the routing decision without the test of the method
Route_anyMethod(targets, url, method) ==
    LET path == normalizeWebhookPath(Pathname(url))
    IN  IF ~StartsWith(path, WEBHOOK_PREFIX) THEN "unhandled"
        ELSE IF GetTarget(targets, path) = None THEN "unhandled"
        ELSE "read"

\* the synchronous head of the request handler: "unhandled" when it returns
\* false, "method" when it answers 405, "read" when it goes on to the body
Route(targets, url, method) ==
    LET path == normalizeWebhookPath(Pathname(url))
    IN  IF ~StartsWith(path, WEBHOOK_PREFIX) THEN "unhandled"
        ELSE IF GetTarget(targets, path) = None THEN "unhandled"
        ELSE IF method # "POST" THEN "method"
        ELSE "read"

\* res.statusCode = status; res.end(body); return true
Respond(out, status, body, allow) ==
    [handled |-> "true", status |-> status, body |-> body, allow |-> allow,
     writes |-> out.writes + 1]

\* a request handler whose catch block rethrows
InternalError_rethrow(out) == [out EXCEPT !.handled = "threw"]

\* the catch block of the request handler
InternalError(out) == Respond(out, 500, "{error:Internal error}", FALSE)

\* the 200 answer at the end of the try block
Accepted(out) == Respond(out, 200, "{ok:true}", FALSE)

\* the request handler returned by createWebhookHandler, up to its first
\* await; urls and bodies are the request targets and bodies it is sent
Dispatch(urls, bodies) ==
    /\ qPc = "idle"
    /\ \E url \in urls : \E method \in Methods : \E body \in bodies :
        LET key == normalizeWebhookPath(Pathname(url))
            route == Route(rTargets, url, method)
        IN  /\ qReq' = Some([url |-> url, method |-> method, body |-> body])
            /\ CASE route = "unhandled" ->
                      /\ qPc' = "done"
                      /\ qTarget' = None
                      /\ qOut' = [qOut EXCEPT !.handled = "false"]
                 [] route = "method" ->
                      /\ qPc' = "done"
                      /\ qTarget' = GetTarget(rTargets, key)
                      /\ qOut' = Respond(qOut, 405, "Method Not Allowed", TRUE)
                 [] OTHER ->
                      /\ qPc' = "reading"
                      /\ qTarget' = GetTarget(rTargets, key)
                      /\ UNCHANGED qOut
    /\ UNCHANGED <<rRuntime, rTargets, rFailed, aPc, aBotId, aLast, qRaised,
                   qForward, qReply>>

RouterDispatch == Dispatch(RequestUrls, Bodies)

\* the paths registerWebexWebhookTarget is called with when it is called
\* directly: an account path, the same with one and with two trailing
\* slashes, without its leading slash, with white space in front and
\* behind, the bare prefix, a path outside /webhooks/webex/, and a path
\* written with a query
RawPaths ==
    { AccountPath("a"),
      AccountPath("a") \o <<"/">>,
      AccountPath("b") \o <<"/", "/">>,
      <<"webhooks", "/", "webex", "/", "b">>,
      <<" ">> \o AccountPath("b"),
      AccountPath("a") \o <<" ">>,
      WEBHOOK_PREFIX,
      <<"/", "other">>,
      AccountPath("b") \o <<"?", "x">> }

EndsWithSlash(p) == p # <<>> /\ p[Len(p)] = "/"

\* p, p with one trailing slash added, p with its trailing slash removed
Variants(p) ==
    { p,
      p \o <<"/">>,
      IF EndsWithSlash(p) THEN SubSeq(p, 1, Len(p) - 1) ELSE p }

PathUrls == UNION {Variants(p) : p \in RawPaths}

\* one well-formed notification and one body that is not JSON
PathBodies ==
    {b \in Bodies : /\ b.bytes = MAX_BODY_BYTES /\ b.stream = "end"
                    /\ \/ b.json = "bad"
                       \/ /\ b.json = "payload"
                          /\ Val(b.payload).data.roomType = "direct"}

\* a target registered under p is in the map
RegisteredUnder(targets, p) ==
    \E e \in targets : e.key = normalizeWebhookPath(p)

\* registerWebexWebhookTarget(path, target), called with any path
RegisterTarget ==
    /\ \E p \in RawPaths : \E id \in Accounts :
        /\ \/ RegisteredUnder(rTargets, p)
           \/ Cardinality(rTargets) < MaxTargets
        /\ rTargets' = SetTarget(rTargets, normalizeWebhookPath(p),
                                 AccountTarget(id, Some(AccountBotId(id))))
    /\ UNCHANGED <<rRuntime, rFailed, aPc, aBotId, aLast,
                   qPc, qReq, qTarget, qOut, qRaised, qForward, qReply>>

\* the function registerWebexWebhookTarget returned, called
UnregisterTarget ==
    /\ \E e \in rTargets : rTargets' = DeleteTarget(rTargets, e.key)
    /\ UNCHANGED <<rRuntime, rFailed, aPc, aBotId, aLast,
                   qPc, qReq, qTarget, qOut, qRaised, qForward, qReply>>

PathDispatch == Dispatch(PathUrls, PathBodies)

\* the key the request in progress was looked up under
RequestKey == normalizeWebhookPath(Pathname(Val(qReq).url))

\* readJsonBody resolves; a body that was read is handed to the target's
\* handleWebhook, which returns null, throws, or goes on to fetch
BodyRead ==
    /\ qPc = "reading"
    /\ LET body == readJsonBody(Val(qReq).body, MAX_BODY_BYTES)
           handler == Val(qTarget).webhookHandler
       IN  IF ~body.ok
           THEN /\ qPc' = "done"
                /\ qOut' = Respond(qOut, BodyErrorStatus(body.error), body.error, FALSE)
                /\ UNCHANGED <<rFailed, qRaised>>
           ELSE IF body.value = None
           THEN /\ qPc' = "done"
                /\ qOut' = InternalError(qOut)
                /\ qRaised' = TRUE
                /\ rFailed' = rFailed \cup {RequestKey}
           ELSE IF handleWebhookFilters(handler.config, handler.botId,
                                        Val(body.value)) = "null"
           THEN /\ qPc' = "done"
                /\ qOut' = Accepted(qOut)
                /\ UNCHANGED <<rFailed, qRaised>>
           ELSE /\ qPc' = "fetching"
                /\ UNCHANGED <<qOut, rFailed, qRaised>>
    /\ UNCHANGED <<rRuntime, rTargets, aPc, aBotId, aLast, qReq, qTarget,
                   qForward, qReply>>

\* the handler's fetch settles; an envelope is handed to the runtime's reply
\* dispatcher when there is a runtime and it has one
EnvelopeReady ==
    /\ qPc = "fetching"
    /\ \E fetched \in ChannelFetchResults :
        LET result == fetchAndNormalize(fetched)
            account == Val(qTarget).account
        IN  IF result.kind = "throw"
            THEN /\ qPc' = "done"
                 /\ qOut' = InternalError(qOut)
                 /\ qRaised' = TRUE
                 /\ rFailed' = rFailed \cup {RequestKey}
                 /\ UNCHANGED qForward
            ELSE \E dispatcher \in BOOLEAN :
                IF rRuntime /\ dispatcher
                THEN /\ qPc' = "replying"
                     /\ qForward' = Some([accountId |-> account.accountId,
                                          to |-> Val(result.value).conversationId])
                     /\ UNCHANGED <<qOut, rFailed, qRaised>>
                ELSE /\ qPc' = "done"
                     /\ qOut' = Accepted(qOut)
                     /\ UNCHANGED <<qForward, rFailed, qRaised>>
    /\ UNCHANGED <<rRuntime, rTargets, aPc, aBotId, aLast, qReq, qTarget, qReply>>

\* the reply dispatcher settles, having delivered a reply through a sender
\* built from account.config or not, or rejects
ReplyDispatched ==
    /\ qPc = "replying"
    /\ \E outcome \in {"silent", "delivered", "raised"} :
        /\ qReply' = IF outcome = "delivered"
                     THEN Some([token |-> Val(qTarget).account.config.token,
                                to |-> Val(qForward).to])
                     ELSE None
        /\ IF outcome = "raised"
           THEN /\ qOut' = InternalError(qOut)
                /\ qRaised' = TRUE
                /\ rFailed' = rFailed \cup {RequestKey}
           ELSE /\ qOut' = Accepted(qOut)
                /\ UNCHANGED <<rFailed, qRaised>>
    /\ qPc' = "done"
    /\ UNCHANGED <<rRuntime, rTargets, aPc, aBotId, aLast, qReq, qTarget, qForward>>

\* the HTTP listener takes the handler's return value
RequestSettled ==
    /\ qPc = "done"
    /\ qPc' = "idle" /\ qReq' = None /\ qTarget' = None /\ qOut' = NoOutput
    /\ qRaised' = FALSE /\ qForward' = None /\ qReply' = None
    /\ UNCHANGED <<rRuntime, rTargets, rFailed, aPc, aBotId, aLast>>

RouterActions ==
    \/ SetPluginRuntime
    \/ StartAccount
    \/ AccountInitialized
    \/ WebhooksRegistered
    \/ StopAccount
    \/ RouterDispatch
    \/ BodyRead
    \/ EnvelopeReady
    \/ ReplyDispatched
    \/ RequestSettled

RouterSpecInit == SenderParked /\ HandlerParked /\ ChannelInit /\ RouterInit /\ ExtraParked

RouterNext == RouterActions /\ UNCHANGED <<senderVars, handlerVars, channelVars, extraVars>>

SpecRouter == RouterSpecInit /\ [][RouterNext]_vars

\* the router with targets registered directly under any path
PathActions ==
    \/ SetPluginRuntime
    \/ RegisterTarget
    \/ UnregisterTarget
    \/ PathDispatch
    \/ BodyRead
    \/ EnvelopeReady
    \/ ReplyDispatched
    \/ RequestSettled

PathNext == PathActions /\ UNCHANGED <<senderVars, handlerVars, channelVars, extraVars>>

SpecPaths == RouterSpecInit /\ [][PathNext]_vars

\* the router with the unregister functions that registrations return
ClosurePaths == {AccountPath("a"), AccountPath("a") \o <<"/">>}

\* registerWebexWebhookTarget(path, target): the map entry is set and a
\* function closing over the key is returned
RegisterWebexWebhookTarget ==
    /\ Len(uIssued) < MaxRegistrations
    /\ \E p \in ClosurePaths : \E id \in Accounts :
        LET key == normalizeWebhookPath(p)
            target == AccountTarget(id, Some(AccountBotId(id)))
        IN  /\ rTargets' = SetTarget(rTargets, key, target)
            /\ uIssued' = Append(uIssued,
                    [key |-> key, target |-> target, calls |-> 0])
    /\ UNCHANGED <<rRuntime, rFailed, aPc, aBotId, aLast,
                   qPc, qReq, qTarget, qOut, qRaised, qForward, qReply>>

\* one of the returned functions is called: webhookTargets.delete(key)
CallUnregister ==
    /\ \E i \in 1..Len(uIssued) :
        /\ uIssued[i].calls < 2
        /\ rTargets' = DeleteTarget(rTargets, uIssued[i].key)
        /\ uIssued' = [uIssued EXCEPT ![i].calls = @ + 1]
    /\ UNCHANGED <<rRuntime, rFailed, aPc, aBotId, aLast,
                   qPc, qReq, qTarget, qOut, qRaised, qForward, qReply>>

ClosureDispatch == Dispatch(ClosurePaths, PathBodies) /\ UNCHANGED uIssued

ClosureActions ==
    \/ SetPluginRuntime /\ UNCHANGED uIssued
    \/ RegisterWebexWebhookTarget
    \/ CallUnregister
    \/ ClosureDispatch
    \/ BodyRead /\ UNCHANGED uIssued
    \/ EnvelopeReady /\ UNCHANGED uIssued
    \/ ReplyDispatched /\ UNCHANGED uIssued
    \/ RequestSettled /\ UNCHANGED uIssued

ClosureNext ==
    ClosureActions
        /\ UNCHANGED <<senderVars, handlerVars, channelVars, verifyVars,
                       registrarVars, poolVars, lifecycleVars, deliveryVars>>

SpecClosures == RouterSpecInit /\ [][ClosureNext]_vars

(***************************************************************************)
(* Properties of the sender                                                *)
(***************************************************************************)
ValidationMessages == {NO_TARGET_MSG, NO_CONTENT_MSG, TOO_LONG_MSG}

\* the call in progress passed validateMessageRequest
PassedValidation == IsSome(sReq) /\ validateMessageRequest(Val(sReq)) = None

\* the call settled with a validation error and never reached the executor
FailedValidation ==
    /\ sPc = "done"
    /\ IsSome(sOutcome) /\ Val(sOutcome).kind = "throw"
    /\ Val(Val(sOutcome).error).message \in ValidationMessages
    /\ sCalls = 0
    /\ sSleeps = 0

\* the error that the latest executor call raised
LastCallError == Val(executeRequest(Val(sLastFetch)).error)

\* C1: a call that passed validation with maxRetries = M >= 0 and whose
\* executor failures were all transient makes at most M + 1 executor calls;
\* it succeeds after N <= M failures with exactly N + 1 calls, and it fails
\* only after exactly M + 1 calls, all failed, with the error of the last.
RetryCountProperty ==
    (sEntry # "none" /\ PassedValidation /\ sender.maxRetries >= 0 /\ sTerminal = 0)
    => /\ sCalls <= sender.maxRetries + 1
       /\ sPc # "done" => sCalls = sTransient
       /\ (sPc = "done" /\ Val(sOutcome).kind = "return")
            => /\ sTransient <= sender.maxRetries
               /\ sCalls = sTransient + 1
       /\ (sPc = "done" /\ Val(sOutcome).kind = "throw")
            => /\ sTransient = sender.maxRetries + 1
               /\ sCalls = sender.maxRetries + 1
               /\ Val(sOutcome).error = Some(LastCallError)

\* C1 witness: a send with M >= 1 that used its whole budget on transient
\* failures and failed
RetryBudgetExhaustedReached ==
    /\ sEntry = "send" /\ sPc = "done" /\ PassedValidation
    /\ sender.maxRetries >= 1 /\ sTerminal = 0
    /\ sCalls = sender.maxRetries + 1
    /\ Val(sOutcome).kind = "throw"

\* C2: the executor is called again (after a delay) only after a transient
\* failure; a failure of any other kind ends the call at once with that
\* error, after exactly one executor call when it is the first failure.
TerminalErrorsNotRetried ==
    /\ (sPc \in {"calling", "sleeping"} /\ sCalls > 0)
        => /\ FailedCall(Val(sLastFetch))
           /\ TransientFailure(Val(sLastFetch))
           /\ sTerminal = 0
    /\ sTerminal > 0
        => /\ sPc = "done"
           /\ sTerminal = 1
           /\ Val(sOutcome) = Throw(LastCallError)
           /\ sCalls = sTransient + 1
           /\ sSleeps = sTransient

\* C2 witness: a first call answered 401 with retry budget left
TerminalFailureReached ==
    /\ sPc = "done" /\ sCalls = 1 /\ sTerminal = 1
    /\ sender.maxRetries >= 1
    /\ Val(sLastFetch).status = 401

\* the plain text of the message given to send() is longer than the limit
TextOverLimit ==
    /\ sEntry = "send"
    /\ IsSome(Val(sMsg).content.text)
    /\ Utf8ByteLength(Val(Val(sMsg).content.text)) > MAX_TEXT_BYTES

\* C5: a send whose plain text is longer than 7439 bytes fails validation
\* and makes no executor call.
OversizeTextRejected == TextOverLimit => FailedValidation

\* the message given to send() carries no content
NoContent ==
    /\ sEntry = "send"
    /\ ~Truthy(Val(sMsg).content.text)
    /\ ~Truthy(Val(sMsg).content.markdown)
    /\ ~HasLength(Val(sMsg).content.files)
    /\ ~IsSome(Val(sMsg).content.card)

\* C6: a send of a message without text, markdown, files and card fails
\* validation; the executor is never called and nothing is retried.
EmptyContentRejected == NoContent => FailedValidation

\* C6 witness: a message with a room target and no content was rejected
EmptyContentReached ==
    /\ NoContent /\ Val(sMsg).to = PLAIN_ROOM
    /\ sPc = "done"
    /\ Val(Val(sOutcome).error).message = NO_CONTENT_MSG

\* the three target fields of a request, as {field name, value} pairs
TargetsOf(request) ==
    {<<f, request[f]>> : f \in {g \in {"roomId", "toPersonId", "toPersonEmail"} :
                                    IsSome(request[g])}}

\* C7: the request built by send() has exactly one target field, holding
\* `to`: toPersonEmail when `to` contains "@"; otherwise, for `to` with the
\* opaque-id prefix, roomId when the decoded id has the room marker,
\* toPersonId when it has the person marker (and not the room marker), and
\* roomId for anything else; roomId for every other `to`.
TargetClassification ==
    sEntry = "send" =>
        LET to == Val(sMsg).to
            decoded == Base64Decode(to)
            expected ==
                IF "@" \in Range(to) THEN "toPersonEmail"
                ELSE IF ~StartsWith(to, ID_PREFIX) THEN "roomId"
                ELSE IF Includes(decoded, ROOM_MARKER) THEN "roomId"
                ELSE IF Includes(decoded, PEOPLE_MARKER) THEN "toPersonId"
                ELSE "roomId"
        IN  TargetsOf(Val(sReq)) = {<<expected, Some(to)>>}

\* C7 witness: the person id of the form the provider issues went to
\* toPersonId, decided by its decoded content
PersonIdClassifiedReached ==
    /\ sEntry = "send"
    /\ Val(sMsg).to = ID_PREFIX \o PEOPLE_TAIL
    /\ Val(sReq).toPersonId = Some(ID_PREFIX \o PEOPLE_TAIL)
    /\ Val(sReq).roomId = None
    /\ sCalls > 0

\* the request of the call in progress has been handed to the executor
HandedToExecutor == sPc \in {"calling", "sleeping"} \/ sCalls > 0

\* C8: a request that send() hands to the executor has exactly one target
\* field and that field is non-empty; an empty `to` fails validation with
\* the missing-target error and no executor call.
ExactlyOneTarget ==
    /\ (sEntry = "send" /\ HandedToExecutor)
        => /\ Cardinality(TargetsOf(Val(sReq))) = 1
           /\ \A t \in TargetsOf(Val(sReq)) : Len(Val(t[2])) > 0
    /\ (sEntry = "send" /\ Val(sMsg).to = <<>>)
        => /\ FailedValidation
           /\ Val(Val(sOutcome).error).message = NO_TARGET_MSG

\* C8 witness: a send with an empty `to` and some content was rejected
EmptyTargetReached ==
    /\ sEntry = "send" /\ Val(sMsg).to = <<>>
    /\ Truthy(Val(sMsg).content.text)
    /\ sPc = "done" /\ sCalls = 0

\* C27: the delay d slept after the n-th failed attempt with base delay b
\* satisfies min(b * 2^(n-1), 30000) <= d <= 30000 and d < 1.3 * b * 2^(n-1).
BackoffBounds ==
    sPc = "sleeping" =>
        LET exponentialDelay == sender.retryDelayMs * Pow2(sAttempt - 1)
        IN  /\ sAttempt >= 1
            /\ sender.retryDelayMs > 0
            /\ sDelay >= Min(exponentialDelay, BACKOFF_CAP_MS) * DelayScale
            /\ sDelay <= BACKOFF_CAP_MS * DelayScale
            /\ 10 * sDelay < 13 * exponentialDelay * DelayScale

\* the delay after the second failed attempt was cut to the cap
BackoffCappedReached ==
    /\ sPc = "sleeping"
    /\ sAttempt = 2
    /\ sender.retryDelayMs * Pow2(sAttempt - 1) > BACKOFF_CAP_MS
    /\ sDelay = BACKOFF_CAP_MS * DelayScale

\* the latest executor call of the send in progress got an HTTP response
Responded == IsSome(sLastFetch) /\ Val(sLastFetch).kind = "http"

\* C28: a 204 response makes the executor return nothing, any other 2xx
\* response with a JSON body makes it return the parsed body, and every
\* response outside 2xx makes it throw a WebexApiRequestError carrying the
\* response's status code, whose message is the message of the error body
\* when the body is JSON and has one, and HTTP <status>: <statusText>
\* otherwise.
ExecutorOutcome ==
    Responded =>
        LET response == Val(sLastFetch)
        IN  /\ response.status = 204 => sOutcome = Some(Return(None))
            /\ (response.status >= 200 /\ response.status <= 299
                    /\ response.status # 204 /\ IsSome(response.body))
                => sOutcome = Some(Return(response.body))
            /\ ~(response.status >= 200 /\ response.status <= 299)
                => /\ IsSome(sLastError)
                   /\ Val(sLastError).cls = "WebexApiRequestError"
                   /\ Val(sLastError).statusCode = response.status
                   /\ Val(sLastError).message
                        = IF IsSome(response.body) /\ Val(response.body) # <<>>
                          THEN Val(response.body)
                          ELSE <<"HTTP", StatusText(response.status)>>

\* a 400 whose body is not JSON was raised with the status line as message
StatusLineMessageReached ==
    /\ Responded
    /\ Val(sLastFetch).status = 400
    /\ Val(sLastFetch).body = None
    /\ sPc = "done"
    /\ sOutcome = Some(Throw(ApiError(<<"HTTP", "Bad Request">>, 400)))

\* the executor call that settled with f failed, with an error that is
\* retried
Transient(f) ==
    /\ executeRequest(f).kind = "throw"
    /\ shouldRetry(Val(executeRequest(f).error), 1)

\* what a send whose executor calls settled with fetches, in this order,
\* stands at under a budget of maxRetries, going by these calls alone
OwnCourse(fetches, maxRetries) ==
    LET n == Len(fetches)
    IN  IF n = 0
        THEN IF maxRetries >= 0 THEN [pc |-> "running", outcome |-> None]
             ELSE [pc |-> "done", outcome |-> Some(Throw(PlainError(AFTER_RETRIES_MSG)))]
        ELSE LET last == executeRequest(fetches[n])
             IN  IF last.kind = "return" THEN [pc |-> "done", outcome |-> Some(last)]
                 ELSE IF n > maxRetries \/ ~Transient(fetches[n])
                 THEN [pc |-> "done", outcome |-> Some(Throw(Val(last.error)))]
                 ELSE [pc |-> "running", outcome |-> None]

\* C29: with several sends in progress on one sender, each send makes as
\* many executor calls, and settles as, its own sequence of failures and
\* maxRetries determine: it goes on exactly while its own failures are
\* transient and number at most maxRetries; and no step of a send changes
\* the sender's retry options.
RetryStatePerCall ==
    [][ /\ \A c \in CallIds :
            kSends'[c].pc # "idle" =>
                LET call == kSends'[c]
                    course == OwnCourse(call.fetches, sender.maxRetries)
                IN  /\ \A i \in 1..(Len(call.fetches) - 1) : Transient(call.fetches[i])
                    /\ Len(call.fetches) <= sender.maxRetries + 1
                    /\ (call.pc = "done") = (course.pc = "done")
                    /\ call.outcome = course.outcome
        /\ sender' = sender ]_vars

\* one send used its whole budget of two retries and failed while another,
\* started on the same sender, succeeded at its first call
InterleavedSendsReached ==
    /\ sender.maxRetries = 2
    /\ kSends[1].pc = "done"
    /\ Len(kSends[1].fetches) = 3
    /\ Val(kSends[1].outcome).kind = "throw"
    /\ kSends[2].pc = "done"
    /\ Len(kSends[2].fetches) = 1
    /\ Val(kSends[2].outcome).kind = "return"

\* C37: in one send the backoff delays lie between two executor calls: a
\* call is made only when every earlier call has been followed by a
\* completed delay, and a send that made executor calls has settled with one
\* delay fewer than calls, so a terminal failure or the failure that
\* exhausts the budget is surfaced without a delay after it.
DelaysOnlyBetweenCalls ==
    (sEntry # "none" /\ PassedValidation) =>
        /\ sPc = "calling" => sSleeps = sCalls
        /\ sPc = "sleeping" => (sCalls >= 1 /\ sSleeps = sCalls - 1)
        /\ (sPc = "done" /\ sCalls >= 1) =>
                /\ sSleeps = sCalls - 1
                /\ sDelay = 0

\* a send failed terminally at its second executor call, after one delay
TerminalAfterOneDelayReached ==
    /\ sEntry = "send" /\ sPc = "done" /\ PassedValidation
    /\ sCalls = 2
    /\ sTransient = 1
    /\ sTerminal = 1
    /\ sSleeps = 1
    /\ Val(sOutcome).kind = "throw"

\* C38: for every integer maxRetries, 0 and negative values included, a
\* send that passed validation has made at least one executor call when it
\* settles, and settles with the response or the error of its last executor
\* call.
AtLeastOneExecutorCall ==
    (sEntry # "none" /\ PassedValidation /\ sPc = "done") =>
        /\ sCalls >= 1
        /\ Val(sOutcome) = executeRequest(Val(sLastFetch))

(***************************************************************************)
(* Properties of the webhook handler                                       *)
(***************************************************************************)
\* the notification of the call in progress passes the resource/event filter
\* and the self filter
PassesFilters ==
    /\ Val(hPayload).resource = "messages"
    /\ Val(hPayload).event = "created"
    /\ Some(Val(hPayload).data.personId) # hBotId

\* the call in progress went on to fetch the message
Proceeded == hFetches = 1
\* the call in progress returned null without a provider request
ReturnedNull == hPc = "done" /\ hResult = Some(Return(None)) /\ hFetches = 0

\* a secret is configured and the signature handed in does not verify
BadSignature ==
    /\ hPc # "idle"
    /\ IsSome(hConfig.webhookSecret)
    /\ IsSome(hSig)
    /\ verifySignature(hConfig, Val(hPayload), Val(hSig), None) # "true"

\* C3: with a secret configured, a notification that arrives with a
\* signature that does not verify yields no Envelope and no enrichment
\* fetch, and once past the resource and self filters it makes handle raise
\* a validation error.
SignatureEnforced ==
    BadSignature =>
        /\ hFetches = 0
        /\ ~(IsSome(hResult) /\ Val(hResult).kind = "return"
                /\ IsSome(Val(hResult).value))
        /\ PassesFilters =>
            /\ hPc = "done"
            /\ Val(hResult).kind = "throw"
            /\ Val(Val(hResult).error).cls = "WebhookValidationError"

\* C4: for a notification past the resource and self filters, a direct
\* conversation proceeds to the fetch under allow, returns null under deny,
\* and under allowlisted proceeds exactly when allowFrom is non-empty and
\* lists the sender's id or email; a group conversation proceeds whatever
\* the policy.
DmPolicyMatrix ==
    (hPc # "idle" /\ PassesFilters) =>
        LET data == Val(hPayload).data
            listed == /\ IsSome(hConfig.allowFrom)
                      /\ Val(hConfig.allowFrom) # <<>>
                      /\ \E i \in 1..Len(Val(hConfig.allowFrom)) :
                            Val(hConfig.allowFrom)[i] \in {data.personId, data.personEmail}
        IN  /\ (data.roomType = "direct" /\ hConfig.dmPolicy = "allow") => Proceeded
            /\ (data.roomType = "direct" /\ hConfig.dmPolicy = "deny") => ReturnedNull
            /\ (data.roomType = "direct" /\ hConfig.dmPolicy = "allowlisted")
                => IF listed THEN Proceeded ELSE ReturnedNull
            /\ data.roomType = "group" => Proceeded

\* C4 witness: a direct message from a sender listed by email only went on
\* to the fetch under allowlisted
AllowlistedByEmailReached ==
    /\ hPc = "fetching"
    /\ hConfig.dmPolicy = "allowlisted"
    /\ hConfig.allowFrom = Some(<<"p2@x">>)
    /\ Val(hPayload).data.roomType = "direct"
    /\ Val(hPayload).data.personId = "person-2"
    /\ hBotId = Some(BOT_ID)

\* C36: for a direct-conversation notification, every dmPolicy other than
\* allow and allowlisted (deny, allowlist, pairing) makes handleWebhook
\* return null without a fetch, whether or not allowFrom lists the sender's
\* id or email.
UnknownPolicyDenies ==
    (/\ hPc # "idle"
     /\ Val(hPayload).data.roomType = "direct"
     /\ hConfig.dmPolicy \notin {"allow", "allowlisted"})
        => ReturnedNull

\* a direct message from a sender listed in allowFrom was dropped under the
\* policy allowlist
ListedSenderDroppedReached ==
    /\ hPc = "done"
    /\ hConfig.dmPolicy = "allowlist"
    /\ hConfig.allowFrom = Some(<<"person-1">>)
    /\ PassesFilters
    /\ Val(hPayload).data.roomType = "direct"
    /\ Val(hPayload).data.personId = "person-1"
    /\ hResult = Some(Return(None))
    /\ hFetches = 0

\* the notification of the call in progress is not a messages/created one,
\* or comes from the bot itself
FilteredOut ==
    \/ Val(hPayload).resource # "messages"
    \/ Val(hPayload).event # "created"
    \/ (IsSome(hBotId) /\ Val(hPayload).data.personId = Val(hBotId))

\* C14: a notification whose resource is not messages, whose event is not
\* created, or whose sender is the bot's own cached id makes handleWebhook
\* return null without throwing and without a request to the provider; and
\* whenever handleWebhook returns null it has made no request.
FilteredWithoutFetch ==
    /\ (hPc # "idle" /\ FilteredOut) => ReturnedNull
    /\ (hPc = "done" /\ hResult = Some(Return(None))) => hFetches = 0

\* a messages/created notification sent by the bot itself was dropped
OwnMessageDroppedReached ==
    /\ hPc = "done"
    /\ Val(hPayload).resource = "messages"
    /\ Val(hPayload).event = "created"
    /\ hBotId = Some(Val(hPayload).data.personId)
    /\ hResult = Some(Return(None))
    /\ hFetches = 0

\* the body the verification call in progress is about
VerifiedBody == SignedBody(Val(vCall).payload, Val(vCall).originalBody)

\* C21: without a configured secret verifySignature returns true whatever
\* the signature; with a secret it returns true for the hex digest of the
\* body under that secret, and false for the digest, under the same secret,
\* of a body that differs from it.
SignatureVerdict ==
    IsSome(vCall) =>
        LET call == Val(vCall)
            secret == hConfig.webhookSecret
        IN  /\ ~IsSome(secret) => call.result = "true"
            /\ (IsSome(secret) /\ call.input.secret = secret
                    /\ call.input.body = Some(VerifiedBody))
                => call.result = "true"
            /\ (IsSome(secret) /\ call.input.secret = secret
                    /\ IsSome(call.input.body)
                    /\ call.input.body # Some(VerifiedBody))
                => /\ Len(call.input.signature) = DigestLen
                   /\ call.result = "false"

\* the digest of a body with one byte changed was refused for the raw body
\* handed in
MutatedBodyRefusedReached ==
    /\ IsSome(vCall)
    /\ hConfig.webhookSecret = Some("s1")
    /\ IsSome(Val(vCall).originalBody)
    /\ Val(vCall).input.secret = Some("s1")
    /\ IsSome(Val(vCall).input.body)
    /\ Val(vCall).input.body # Some(VerifiedBody)
    /\ Val(vCall).result = "false"

\* C22: with a secret configured, a signature whose length is not the
\* digest's makes verifySignature return false: it does not return true
\* and no exception escapes.
LengthMismatchRefused ==
    (IsSome(vCall) /\ IsSome(hConfig.webhookSecret)
        /\ Len(Val(vCall).input.signature) # DigestLen)
        => Val(vCall).result = "false"

\* the fetch of the call in progress was answered with a status outside 2xx
FetchRefused ==
    /\ hPc = "done"
    /\ IsSome(hFetched)
    /\ Val(hFetched).kind = "http"
    /\ ~(Val(hFetched).status >= 200 /\ Val(hFetched).status <= 299)

\* C23: when the fetch of the full message is answered with a status
\* outside 2xx, handleWebhook throws: it returns neither null nor an
\* envelope, so the failure cannot be taken for a policy denial.
EnrichmentFailureRaised ==
    FetchRefused =>
        /\ Val(hResult).kind = "throw"
        /\ Val(hResult).value = None
        /\ Val(Val(hResult).error).message
                = FETCH_FAILED_MSG \o <<StatusText(Val(hFetched).status)>>

\* a direct message that passed an allowlisted policy failed on a 404 from
\* the provider
AllowedSenderFetchFailedReached ==
    /\ FetchRefused
    /\ Val(hFetched).status = 404
    /\ Val(hPayload).data.roomType = "direct"
    /\ hConfig.dmPolicy = "allowlisted"
    /\ Val(hResult).kind = "throw"

\* the call in progress returned an envelope
EnvelopeReturned ==
    /\ hPc = "done"
    /\ Val(hResult).kind = "return"
    /\ IsSome(Val(hResult).value)

\* the files of a message as file attachments followed by its cards as
\* card attachments, or nothing when it has neither
ExpectedAttachments(message) ==
    LET files == IF IsSome(message.files) THEN Val(message.files) ELSE <<>>
        cards == IF IsSome(message.attachments) THEN Val(message.attachments) ELSE <<>>
        n == Len(files) + Len(cards)
    IN  IF n = 0 THEN None
        ELSE Some([i \in 1..n |->
                    IF i <= Len(files)
                    THEN [type |-> "file", url |-> Some(files[i]), content |-> None]
                    ELSE [type |-> "card", url |-> None,
                          content |-> Some(cards[i - Len(files)].content)]])

\* C24: every envelope handleWebhook returns is built from the message the
\* fetch returned: id, conversation id, text, markdown, mentions and parent
\* id are the message's id, roomId, text, markdown, mentionedPeople and
\* parentId, and the attachments are its files in order followed by its
\* cards, absent when it has neither.
EnvelopeFromFetchedMessage ==
    EnvelopeReturned =>
        /\ IsSome(hFetched)
        /\ IsSome(Val(hFetched).message)
        /\ LET message == Val(Val(hFetched).message)
               envelope == Val(Val(hResult).value)
           IN  /\ envelope.id = message.id
               /\ envelope.conversationId = message.roomId
               /\ envelope.content.text = message.text
               /\ envelope.content.markdown = message.markdown
               /\ envelope.metadata.mentions = message.mentionedPeople
               /\ envelope.metadata.parentId = message.parentId
               /\ envelope.content.attachments = ExpectedAttachments(message)

\* an envelope was returned for a message with two files and a card, whose
\* room is not the one the notification named
MixedAttachmentsReached ==
    /\ EnvelopeReturned
    /\ Val(hFetched).message = Some(MSG_RICH)
    /\ Val(hPayload).data.roomId # MSG_RICH.roomId
    /\ Len(Val(Val(Val(hResult).value).content.attachments)) = 3

\* C26: handleWebhook keeps nothing from one notification to the next: a
\* call goes on to the fetch exactly when the filters let its notification
\* pass, whether or not an envelope was returned for the same notification
\* before, its result is made from what its own fetch settled with, and no
\* step of a call changes the handler's config or cached bot id.
NoDeduplication ==
    [][ /\ (hPc = "idle" /\ hPc' # "idle")
            => /\ hFetches' = IF handleWebhookFilters(hConfig, hBotId, Val(hPayload')) = "fetch"
                              THEN 1 ELSE 0
               /\ hPc' = IF hFetches' = 1 THEN "fetching" ELSE "done"
        /\ (hPc = "fetching" /\ hPc' = "done")
            => hResult' = Some(fetchAndNormalize(Val(hFetched')))
        /\ (hPc # "idle" \/ hPc' # "idle")
            => (hConfig' = hConfig /\ hBotId' = hBotId) ]_vars

\* a notification an envelope was returned for has been handled again, with
\* a second fetch and a second envelope
HandledTwiceReached ==
    /\ IsSome(hLast)
    /\ hLast = hPayload
    /\ EnvelopeReturned
    /\ hFetches = 1

\* registerWebhooks has returned its result
RegistrationSucceeded == gPc = "done" /\ Val(gResult).kind = "return"

\* the webhooks in hooks that point at the configured URL
AtTargetUrl(hooks) == {h \in hooks : h.targetUrl = hConfig.webhookUrl}

\* C25: when registerWebhooks succeeds the provider holds exactly one
\* webhook with the configured target URL, the messages/created webhook
\* just created, which is the only element of the result; every webhook
\* that had that target URL when the call began is gone; and no step of
\* the call removes or asks to delete a webhook with another target URL.
SingleWebhookAfterRegistration ==
    [][ /\ (gPc = "deleting" /\ RegistrationSucceeded') =>
            /\ Len(Val(gResult').value) = 1
            /\ AtTargetUrl(pHooks') = {Val(gResult').value[1]}
            /\ Val(gResult').value[1].resource = "messages"
            /\ Val(gResult').value[1].event = "created"
            /\ Val(gResult').value[1] \notin gBefore'
            /\ \A h \in AtTargetUrl(gBefore') : h \notin pHooks'
            /\ \A h \in gBefore' \ AtTargetUrl(gBefore') : h.id \notin gDeleted'
        /\ (gPc = "deleting" /\ (gIdx' # gIdx \/ gPc' # gPc))
            => \A h \in pHooks \ AtTargetUrl(pHooks) : h \in pHooks' ]_vars

\* a registration that found two webhooks at the configured URL and one
\* at another has succeeded and the other one is still held
DuplicatesReplacedReached ==
    /\ RegistrationSucceeded
    /\ gBefore = ProviderHooks
    /\ gDeleted = {"old-1", "old-2"}
    /\ pHooks = {Webhook("other-1", OTHER_URL, "messages", "created"),
                 Val(gResult).value[1]}

\* registerWebhooks ends with a failure in this step
RegistrationFails ==
    gPc # "done" /\ gPc' = "done" /\ Val(gResult').kind = "throw"

\* C39: when registerWebhooks fails, at the listing, at a deletion or at
\* the creation, the call has removed none of the webhooks that pointed at
\* the configured URL when it began: a failed registration leaves the
\* account with the webhooks it had for its URL.
FailedRegistrationKeepsWebhooks ==
    [][ RegistrationFails =>
            \A h \in AtTargetUrl(gBefore') : h.id \notin gRemoved' ]_vars

(***************************************************************************)
(* Properties of the channel facade                                        *)
(***************************************************************************)
GuardedCalls ==
    {"send", "handleWebhook", "registerWebhooks", "getSender", "getWebhookHandler"}

NotInitializedThrow == Some(Throw(PlainError(NOT_INITIALIZED_MSG)))

\* C9: while the facade is uninitialized (never initialized, or shut down),
\* each of send, handleWebhook, registerWebhooks, getSender and
\* getWebhookHandler fails at once with the not-initialized error and is not
\* handed to the sender or the webhook handler; a handleWebhook that failed so
\* has fetched nothing, obtained no envelope and invoked no subscriber.
UninitializedCallsFail ==
    /\ (cOp.name \in GuardedCalls /\ ~cInitialized)
            => cOp.result = "not-initialized"
    /\ (cOp.name = "handleWebhook" /\ cOp.result = "not-initialized")
            => /\ wPc \in {"done", "idle"}
               /\ wPc = "done" => /\ wResult = NotInitializedThrow
                                  /\ wEnvelope = None
                                  /\ wInvoked = <<>>

\* a send refused on a facade that was shut down with a subscriber registered
SendRefusedAfterShutdownReached ==
    /\ cOp = [name |-> "send", result |-> "not-initialized", arg |-> None]
    /\ ~cInitialized
    /\ cDropped
    /\ cConfig = None

\* C10: right after shutdown the facade is uninitialized, its subscriber list
\* is empty and it holds no sender, no webhook handler and no configuration;
\* and an envelope obtained after a shutdown is never delivered to a
\* subscriber that was registered before that shutdown.
ShutdownForgetsSubscribers ==
    /\ cOp.name = "shutdown"
            => /\ ~cInitialized
               /\ cHandlers = <<>>
               /\ cSender = None
               /\ cHandler = None
               /\ cConfig = None
    /\ \A i \in 1..Len(wInvoked) : wInvoked[i].old => wEarly

\* a facade initialized again after a shutdown that discarded a subscriber
\* has delivered a later envelope to a subscriber registered since
RedeliveryAfterShutdownReached ==
    /\ cDropped
    /\ cInitialized
    /\ IsSome(cHandler)
    /\ wPc = "done"
    /\ ~wEarly
    /\ Len(wInvoked) >= 1
    /\ wResult = Some(Return(wEnvelope))
\* the subscribers invoked for the envelope, in the order of invocation
InvokedHandlers == [i \in 1..Len(wInvoked) |-> wInvoked[i].h]

\* the subscribers in the array the loop of notifyHandlers is iterating
IteratedHandlers ==
    LET array == IF wCurrent THEN cHandlers ELSE wOld
    IN  [i \in 1..Len(array) |-> array[i].h]

\* the loop of notifyHandlers ends in this step
LoopExit == wPc = "notifying" /\ wPc' = "done"

\* a subscriber throws for the first time in this step
FirstRaise == wPc = "notifying" /\ wRaisedAt = 0 /\ wRaisedAt' # 0

\* C11: once handleWebhook holds a non-null envelope, a subscriber that
\* throws leaves the loop running and moves it to the next subscriber; when
\* the loop ends handleWebhook returns the envelope, never a failure; and
\* when nothing pushed to or spliced the list meanwhile, every registered
\* subscriber has been invoked, those after the one that threw included.
RaisingSubscriberIsolated ==
    [][ /\ FirstRaise => (wPc' = "notifying" /\ wIdx' = wIdx + 1)
        /\ LoopExit =>
            /\ IsSome(wEnvelope)
            /\ wResult' = Some(Return(wEnvelope))
            /\ ~wTouched => InvokedHandlers = IteratedHandlers ]_vars

\* the first of two subscribers threw, the second was invoked all the same
\* and handleWebhook returned the envelope
SecondInvokedAfterRaiseReached ==
    /\ wPc = "done"
    /\ wRaisedAt = 1
    /\ Len(wInvoked) = 2
    /\ ~wTouched
    /\ ~wEarly
    /\ IsSome(wEnvelope)
    /\ wResult = Some(Return(wEnvelope))

\* C12: when the webhook handler yields an envelope, every subscriber in
\* the list when the loop ends has been invoked with it (exactly once each
\* and in registration order when the list was left alone meanwhile); when
\* it yields null no subscriber is invoked; offMessage removes one
\* registration of a registered handler and changes nothing otherwise.
EverySubscriberNotified ==
    [][ /\ LoopExit =>
            /\ \A i \in 1..Len(IteratedHandlers) :
                    \E j \in 1..Len(wInvoked) : wInvoked[j].h = IteratedHandlers[i]
            /\ ~wTouched => InvokedHandlers = IteratedHandlers
        /\ (wPc' = "done" /\ wResult' = Some(Return(None))) => wInvoked' = <<>>
        /\ (cOp'.name = "offMessage" /\ cHandlers' # cHandlers)
            => \E i \in 1..Len(cHandlers) : cHandlers' = RemoveAt(cHandlers, i)
      ]_vars
\* a config with an empty token, an empty webhookUrl, no dmPolicy, policy
\* allowlisted without a non-empty allowFrom, or a malformed webhookUrl
ConfigViolates(config) ==
    \/ config.token = ""
    \/ config.webhookUrl = <<>>
    \/ config.dmPolicy = ""
    \/ /\ config.dmPolicy = "allowlisted"
       /\ (config.allowFrom = None \/ config.allowFrom = Some(<<>>))
    \/ ~IsValidUrl(config.webhookUrl)

\* initialize(config) is called in this step
InitializeCalled == iPc = "idle" /\ cOp'.name = "initialize" /\ IsSome(cOp'.arg)

\* C13: initialize with a config that has an empty token, an empty
\* webhookUrl, no dmPolicy, allowlisted without a non-empty allowFrom or a
\* malformed webhookUrl fails and changes nothing: the facade stays
\* uninitialized and no sender or webhook handler is constructed; with any
\* other config a sender and a handler are constructed and, once the
\* identity fetch succeeds, the facade is initialized.
InitializeValidates ==
    [][ /\ InitializeCalled =>
            IF ConfigViolates(Val(cOp'.arg))
            THEN /\ cOp'.result = "config-error"
                 /\ UNCHANGED <<cInitialized, cConfig, cSender, cHandler, iPc>>
            ELSE /\ cOp'.result = "pending"
                 /\ iPc' = "fetching"
                 /\ IsSome(cSender') /\ IsSome(cHandler')
        /\ (iPc = "fetching" /\ cOp'.name = "initialize" /\ cOp'.result = "ok")
            => cInitialized'
      ]_vars

\* a fresh facade has refused a config whose webhookUrl is not a URL
MalformedUrlRefusedReached ==
    /\ cOp.name = "initialize"
    /\ cOp.result = "config-error"
    /\ IsSome(cOp.arg)
    /\ Val(cOp.arg).token # ""
    /\ Val(cOp.arg).webhookUrl # <<>>
    /\ ~IsValidUrl(Val(cOp.arg).webhookUrl)
    /\ ~cInitialized
    /\ cSender = None

\* C31: after any sequence of completed initialize and shutdown calls, an
\* initialized facade holds a webhook handler whose botId is set; a second
\* initialize whose identity fetch fails does not leave the facade
\* initialized around a handler without botId.
IdentityKnownWhenInitialized ==
    (iPc = "idle" /\ cInitialized /\ IsSome(cHandler))
        => IsSome(Val(cHandler).botId)

\* C32: when a shutdown ran while initialize was suspended at the identity
\* fetch and both have completed, isInitialized() is true only if config,
\* sender and webhook handler are all non-null.
ConsistentAfterInterleavedShutdown ==
    (iPc = "idle" /\ cInitialized)
        => (IsSome(cConfig) /\ IsSome(cSender) /\ IsSome(cHandler))

\* how many times h was invoked with the envelope being delivered
InvocationsOf(h) == Cardinality({j \in 1..Len(wInvoked) : wInvoked[j].h = h})

\* C34: when the loop of notifyHandlers ends, every subscriber that stayed
\* registered from its beginning to its end, whatever offMessage calls were
\* made while a subscriber was awaited, has been invoked with the envelope,
\* and exactly once when it never held two registrations.
StayingSubscriberNotSkipped ==
    [][ LoopExit =>
            \A h \in dStayed :
                /\ InvocationsOf(h) >= 1
                /\ h \notin dMulti => InvocationsOf(h) = 1
      ]_vars

\* C35: an initialize that fails, at config validation or at the identity
\* fetch (no shutdown having run meanwhile), leaves isInitialized(),
\* getConfig(), the sender and the webhook handler as they were when it was
\* called.
FailedInitializeRestores ==
    [][ /\ (InitializeCalled /\ cOp'.result = "config-error")
            => Snapshot' = Snapshot
        /\ (iPc = "fetching" /\ iSame /\ cOp'.name = "initialize"
                /\ cOp'.result = "error")
            => Snapshot' = Val(lBefore)
      ]_vars
    /\ cHandler = None
(***************************************************************************)
(* Properties of the webhook router and the account gateway                *)
(***************************************************************************)
\* a request enters the router in this step
Dispatched == qPc = "idle" /\ qPc' # "idle"

\* a target is registered under the path of the request entering the router
Registered(targets, url) ==
    \E e \in targets : e.key = normalizeWebhookPath(Pathname(url))

ProcessingErrorContained ==
    [][ /\ qOut'.handled # "threw"
        /\ (qRaised' /\ ~qRaised)
            => /\ qPc' = "done"
               /\ qOut'.handled = "true"
               /\ qOut'.status = 500
               /\ qOut'.body = "{error:Internal error}"
               /\ qOut'.writes = 1
               /\ rTargets' = rTargets ]_vars

\* a path that answered 500 before has served a later request with 200
\* through the target registered for its account
ServedAfterErrorReached ==
    /\ qPc = "done"
    /\ RequestKey \in rFailed
    /\ qOut.status = 200
    /\ ~qRaised
    /\ qTarget = GetTarget(rTargets, RequestKey)
    /\ IsSome(qTarget)

\* the account whose path the request in progress was sent to
PathOwner == CHOOSE id \in Accounts : normalizeWebhookPath(AccountPath(id)) = RequestKey

\* C17: a request on the path registered for an account is served with that
\* account's target only: its handler holds the account's config and bot id,
\* the fetch is reached only when the account's policy lets the notification
\* pass, and the context forwarded and the sender a reply goes through carry
\* the account's id and config; every entry of the target map belongs to the
\* account of its key.
AccountIsolation ==
    /\ \A e \in rTargets : \E id \in Accounts :
            /\ e.key = normalizeWebhookPath(AccountPath(id))
            /\ e.target = AccountTarget(id, Some(AccountBotId(id)))
    /\ (qPc # "idle" /\ IsSome(qTarget))
        => /\ \E id \in Accounts : normalizeWebhookPath(AccountPath(id)) = RequestKey
           /\ Val(qTarget) = AccountTarget(PathOwner, Some(AccountBotId(PathOwner)))
           /\ qPc \in {"fetching", "replying"}
                => handleWebhookFilters(AccountConfig(PathOwner),
                                        Some(AccountBotId(PathOwner)),
                                        Val(Val(qReq).body.payload)) = "fetch"
           /\ IsSome(qForward) => Val(qForward).accountId = PathOwner
           /\ IsSome(qReply) => Val(qReply).token = AccountConfig(PathOwner).token

\* with both accounts running, a reply was delivered for a notification on
\* the second account's path
ReplyForSecondAccountReached ==
    /\ \A id \in Accounts : aPc[id] = "running"
    /\ qPc = "done"
    /\ IsSome(qForward)
    /\ Val(qForward).accountId = "b"
    /\ IsSome(qReply)
    /\ qOut.status = 200

\* the request entering the router is served by the target registered
\* under p
FoundFor(p) ==
    /\ IsSome(qTarget')
    /\ qTarget' = GetTarget(rTargets, normalizeWebhookPath(p))
    /\ qOut'.handled # "false"

PlainPath(p) ==
    /\ \A i \in 1..Len(p) : p[i] # "?"
    /\ p # <<>> /\ p[Len(p)] # " "

\* s ends in at most one slash
AtMostOneTrailingSlash(s) ==
    ~(Len(s) >= 2 /\ s[Len(s)] = "/" /\ s[Len(s) - 1] = "/")

AccountRegistered(targets, id) ==
    \E e \in targets : e.key = normalizeWebhookPath(AccountPath(id))

\* C19: startAccount initializes the handler's identity, then registers the
\* webhooks remotely, then registers the path: no path is registered for an
\* account whose start has not got that far or whose initialization failed;
\* remote registration, failed or not, is followed by the registration of
\* the path with an initialized handler; and once the stop callback has
\* run, a request to the account's path is not handled.
StartAccountOrder ==
    [][ \A id \in Accounts :
            /\ aPc'[id] \in {"stopped", "initializing"}
                => /\ ~AccountRegistered(rTargets', id)
                   /\ Route(rTargets', AccountPath(id), "POST") = "unhandled"
            /\ aPc'[id] = "registering"
                => (IsSome(aBotId'[id]) /\ ~AccountRegistered(rTargets', id))
            /\ (aPc[id] = "initializing" /\ aPc'[id] = "stopped")
                => aLast'[id] = "init-failed"
            /\ (aPc[id] = "registering" /\ aPc'[id] # "registering")
                => /\ aPc'[id] = "running"
                   /\ GetTarget(rTargets', normalizeWebhookPath(AccountPath(id)))
                        = Some(AccountTarget(id, Some(AccountBotId(id)))) ]_vars

\* an account whose remote webhook registration failed serves its path
StartedWithoutWebhooksReached ==
    \E id \in Accounts :
        /\ aLast[id] = "started-hooks-failed"
        /\ aPc[id] = "running"
        /\ AccountRegistered(rTargets, id)
        /\ qPc = "done"
        /\ RequestKey = normalizeWebhookPath(AccountPath(id))
        /\ qOut.status = 200

\* the request is past the lookup and not yet answered
InFlight == qPc \in {"reading", "fetching", "replying"}

\* C30: however starts and stops of accounts interleave with a request,
\* the lookup yields either nothing or the whole target of one
\* registration, with the account, config and handler registered together
\* under the request's path; a change of the target map leaves the request
\* in progress as it is; and a request that got its target keeps it through
\* every later step and is answered, once, as handled.
LookupSeesWholeTarget ==
    [][ /\ Dispatched =>
            /\ qTarget' = GetTarget(rTargets, normalizeWebhookPath(Pathname(Val(qReq').url)))
            /\ IsSome(qTarget') =>
                    \E e \in rTargets : \E id \in Accounts :
                        /\ e.key = normalizeWebhookPath(Pathname(Val(qReq').url))
                        /\ e.key = normalizeWebhookPath(AccountPath(id))
                        /\ Val(qTarget') = e.target
                        /\ e.target.account.accountId = id
                        /\ e.target.account.config = AccountConfig(id)
                        /\ e.target.config = AccountConfig(id)
                        /\ e.target.webhookHandler.config = AccountConfig(id)
                        /\ e.target.webhookHandler.botId = Some(AccountBotId(id))
        /\ rTargets' # rTargets =>
            /\ qPc' = qPc /\ qReq' = qReq /\ qTarget' = qTarget /\ qOut' = qOut
        /\ InFlight =>
            /\ IsSome(qTarget)
            /\ qTarget' = qTarget
            /\ qPc' # "idle"
            /\ qPc' = "done" => (qOut'.handled = "true" /\ qOut'.writes = 1) ]_vars

\* a reply is being dispatched for an account whose path was unregistered
\* after the request got its target
UnregisteredInFlightReached ==
    /\ qPc = "replying"
    /\ IsSome(qTarget)
    /\ GetTarget(rTargets, RequestKey) = None
    /\ aPc[Val(qTarget).account.accountId] = "stopped"

\* the status the handled request in progress is to be answered with
ExpectedStatus ==
    LET req == Val(qReq)
    IN  IF req.method # "POST" THEN 405
        ELSE IF req.body.bytes > MAX_BODY_BYTES THEN 413
        ELSE IF req.body.json = "bad" THEN 400
        ELSE IF qRaised THEN 500
        ELSE 200

\* C20: a handled request gets exactly one response: 405 for a method other
\* than POST, else 413 for a body of more than 1 MiB, else 400 for a body
\* that is not valid JSON, else 500 when processing threw and 200 when it
\* did not, a notification filtered out to null included; a request that
\* is not handled gets none.
OneResponsePerRequest ==
    /\ qOut.writes <= 1
    /\ qPc = "done" =>
        /\ qOut.handled \in {"true", "false"}
        /\ qOut.handled = "false" => (qOut.writes = 0 /\ qOut.status = 0)
        /\ qOut.handled = "true" => (qOut.writes = 1 /\ qOut.status = ExpectedStatus)
        /\ (qOut.handled = "true" /\ qOut.status = 200)
            => qOut.body = "{ok:true}"

\* a body of one byte more than 1 MiB was answered 413
OversizeBodyRefusedReached ==
    /\ qPc = "done"
    /\ Val(qReq).method = "POST"
    /\ Val(qReq).body.bytes = MAX_BODY_BYTES + 1
    /\ qOut.status = 413
    /\ qOut.writes = 1

\* the i-th unregister function is called in this step
UnregisterCalled(i) ==
    /\ Len(uIssued') = Len(uIssued)
    /\ uIssued'[i].calls = uIssued[i].calls + 1

\* the key of the i-th unregister function now holds the target of a later
\* registration, a target other than the one the function was returned for
Superseded(i) ==
    \E j \in (i + 1)..Len(uIssued) :
        /\ uIssued[j].key = uIssued[i].key
        /\ uIssued[j].target # uIssued[i].target
        /\ GetTarget(rTargets, uIssued[i].key) = Some(uIssued[j].target)

\* C33: an unregister function removes only the registration it was
\* returned for: when its path has since been registered again with another
\* target, calling it leaves that newer target in the map, found by a
\* dispatch lookup; and calling it again when nothing is registered under
\* its key changes nothing.
UnregisterRemovesOnlyOwn ==
    [][ \A i \in 1..Len(uIssued) :
            UnregisterCalled(i) =>
                /\ Superseded(i) =>
                        /\ GetTarget(rTargets', uIssued[i].key)
                                = GetTarget(rTargets, uIssued[i].key)
                        /\ Route(rTargets', AccountPath("a"), "POST") = "read"
                /\ (uIssued[i].calls >= 1
                        /\ GetTarget(rTargets, uIssued[i].key) = None)
                    => rTargets' = rTargets
      ]_vars

\* C40: normalizeWebhookPath is idempotent: every key that a registration
\* has stored, the normalized form of the path it was given, is left as it
\* is by normalizing it again.
NormalizeIdempotent ==
    \A e \in rTargets : normalizeWebhookPath(e.key) = e.key
====
